---- MODULE Spec2Model ----
(***************************************************************************)
(* State-machine model of the wreq-js native bridge (rust/src/client.rs,  *)
(* rust/src/lib.rs): the body stream store, the request pipeline with its *)
(* cancellation registry, and the session / transport / ephemeral client  *)
(* registries.  Tasks spawned on the multi-threaded HTTP_RUNTIME are      *)
(* modelled as records with a program counter; every access to a shared   *)
(* registry and every await point is one step.                            *)
(***************************************************************************)
EXTENDS Integers, Sequences, FiniteSets, TLC

\* ---------------------------------------------------------------- bounds
MaxHandles    == 2   \* body handles the model allocates
MaxChunks     == 2   \* chunks a body stream yields before its terminal result
MaxReaders    == 3   \* read_body_chunk / read_body_all calls the host issues
MaxRequests   == 3   \* request() calls the host issues
MaxRaceRequests == 2 \* request() calls issued among cancelRequest or session operations
MaxShapeRequests == 1 \* request() calls issued when only the response shape is examined
MaxJars       == 3   \* cookie jars the model allocates
MaxClients    == 3   \* HTTP clients the model builds
MaxTransports == 1   \* createTransport calls the host issues
MaxSockets    == 1   \* websocketConnect calls the host issues
MaxFrames     == 3   \* Text / Binary frames a connection receives
MaxPings      == 1   \* Ping / Pong frames a connection receives
MaxPressureFrames == 7 \* Text frames a connection receives from a fast peer
MaxClosers    == 2   \* websocketClose calls the host issues
MaxSenders    == 1   \* websocketSend calls the host issues
MaxCallSockets == 2  \* websocketConnect calls issued among websocketSend / websocketClose calls
MaxHeaders    == 2   \* user headers of a session-bound WebSocket upgrade
MaxJarValues  == 2   \* header values the cookie jar yields for a URI
WS_EVENT_BUFFER == 2 \* capacity of the event channel and of the permit semaphore
                     \* (const WS_EVENT_BUFFER: usize = 64, scaled down so that
                     \* MaxFrames frames fill the channel)

\* ------------------------------------------------------ program constants
FirstBodyHandle == 1      \* static NEXT_BODY_HANDLE: AtomicU64 = AtomicU64::new(1)
INLINE_BODY_MAX == 65536  \* const INLINE_BODY_MAX: u64 = 64 * 1024
None            == -1     \* Option::None of an Option<u64> / Option<String> field
FirstWsId       == 1      \* static NEXT_WS_ID: AtomicU64 = AtomicU64::new(1)

\* ----------------------------------------------------------------- state
VARIABLES
    BODY_STREAMS,      \* keys of the DashMap<u64, Arc<Mutex<ResponseBodyStream>>>
    NEXT_BODY_HANDLE,  \* the AtomicU64 handle counter
    streams,           \* the stream objects (Arc<Mutex<..>>) by the handle they were stored under
    readers,           \* the read_body_chunk / read_body_all tasks, in call order
    readAllCalled,     \* history: stored handles on which read_body_all has begun
    dropped,           \* history: stored handles passed to drop_body_stream
    REQUEST_CANCELLATIONS, \* DashMap<u64, CancellationToken>: request id -> token
    cancelled,         \* the CancellationTokens that have been cancelled
    requests,          \* the request tasks, in call order
    SESSION_MANAGER,   \* SessionManager.cache: session id -> Arc<Jar>
    jars,              \* the cookie jars (Arc<Jar>) allocated so far, with their cookies
    TRANSPORT_MANAGER, \* TransportManager.explicit: transport id -> Arc<HttpClient>
    transportIds,      \* number of transport ids (UUIDs) generated so far
    EPHEMERAL_MANAGER, \* EphemeralClientManager.cache: SessionConfig -> Arc<HttpClient>
    clients,           \* the HTTP clients built so far, with purpose and config
    cancelCalls,       \* history: the cancellable requests whose id has been passed to cancelRequest since they were submitted
    lastCancelId,      \* history: the request id of the latest cancelRequest call
    clientForReturned, \* history: the requests whose client_for call has returned a client, their cache key not evicted since
    dropTransportCalls, \* history: the transport ids passed to dropTransport
    sessionCall,       \* history: the latest createSession / clearSession call with its outcome,
                       \* the jar it created or cleared and the requests submitted before it
    WS_CONNECTIONS,    \* keys of the DashMap<u64, Arc<WsConnection>>
    NEXT_WS_ID,        \* the AtomicU64 connection id counter
    sockets,           \* per connection: reader task, event channel, dispatcher task, callbacks
    hostQueue,         \* the closures queued on the host's event loop (neon Channel), in order
    callbacks,         \* history: the host callbacks invoked so far, in order
    closers,           \* the websocketClose tasks, in call order
    senders,           \* the websocketSend tasks, in call order
    upgrade            \* history: the session-bound WebSocket upgrade, its inputs and
                       \* the header list it passed on

bodyVars == <<BODY_STREAMS, NEXT_BODY_HANDLE, streams, readers, readAllCalled, dropped>>
reqVars == <<REQUEST_CANCELLATIONS, cancelled, requests, cancelCalls, lastCancelId>>
sessVars == <<SESSION_MANAGER, jars, sessionCall>>
clientVars == <<TRANSPORT_MANAGER, transportIds, EPHEMERAL_MANAGER, clients,
                clientForReturned, dropTransportCalls>>
wsVars == <<WS_CONNECTIONS, NEXT_WS_ID, sockets, hostQueue, callbacks, closers, senders, upgrade>>
vars == <<bodyVars, reqVars, sessVars, clientVars, wsVars>>

Handles == FirstBodyHandle .. MaxHandles
NoResult == [kind |-> "none", val |-> <<>>]
Result(k, v) == [kind |-> k, val |-> v]

\* ------------------------------------------------------- body stream store
\* A ResponseBodyStream behind its tokio Mutex.  A chunk is identified by its
\* position in the stream: `pos` chunks have been yielded so far, `fin` says the
\* terminal result (end of stream or error) has been yielded, `owner` is the
\* task holding the mutex (0: free).
NewStream == [pos |-> 0, fin |-> FALSE, owner |-> 0]

\* guard.next().await: the items the stream may yield on its next poll, as the
\* network decides.  A stream polled again after its terminal result yields None.
StreamItems(s) ==
    IF s.fin THEN {Result("eof", <<>>)}
    ELSE {Result("eof", <<>>), Result("stream_error", <<>>)}
         \cup (IF s.pos < MaxChunks THEN {Result("chunk", <<s.pos + 1>>)} ELSE {})

StreamAdvance(s, item) ==
    IF item.kind = "chunk" THEN [s EXCEPT !.pos = s.pos + 1] ELSE [s EXCEPT !.fin = TRUE]

\* Mutant: the smallest handle that is not in the store is handed out.
next_body_handle_reuse ==
    CHOOSE h \in FirstBodyHandle .. NEXT_BODY_HANDLE :
        /\ h \notin BODY_STREAMS
        /\ \A g \in FirstBodyHandle .. NEXT_BODY_HANDLE : g \notin BODY_STREAMS => h <= g

\* next_body_handle(): NEXT_BODY_HANDLE.fetch_add(1, Relaxed) returns the
\* value before the increment.
next_body_handle == NEXT_BODY_HANDLE

\* store_body_stream(stream): allocate the next handle and insert.
store_body_stream ==
    /\ NEXT_BODY_HANDLE' = NEXT_BODY_HANDLE + 1
    /\ BODY_STREAMS' = BODY_STREAMS \cup {next_body_handle}
    /\ streams' = streams @@ (next_body_handle :> NewStream)

StoreBodyStream ==
    /\ NEXT_BODY_HANDLE <= MaxHandles
    /\ store_body_stream
    /\ UNCHANGED <<wsVars, readers, readAllCalled, dropped, reqVars, sessVars, clientVars>>

\* Mutant: the handle is left in the store.
remove_stream_keep(h) == BODY_STREAMS

\* BODY_STREAMS.remove(&handle) in read_body_chunk and drop_body_stream.
remove_stream(h) == BODY_STREAMS \ {h}

\* Mutant: read_body_all looks the stream up with get, as read_body_chunk does.
read_all_take_get(h) == BODY_STREAMS

\* BODY_STREAMS.remove(&handle) at the entry of read_body_all.
read_all_take(h) == BODY_STREAMS \ {h}

\* A task running read_body_chunk / read_body_all on `h`, added once its
\* lookup has found the stream `found`, or has failed.  `yielded` remembers,
\* for read_body_all, how many chunks the stream had yielded when the call
\* was made.
NewReader(op, h, found) ==
    [op |-> op, handle |-> h, chunks |-> <<>>, next |-> NoResult,
     after_read_all |-> h \in readAllCalled,
     yielded |-> IF found /\ op = "all" THEN streams[h].pos ELSE 0,
     pc |-> IF found THEN "lock" ELSE "done",
     result |-> IF found THEN NoResult ELSE Result("not_found", <<>>)]

\* read_body_chunk, BODY_STREAMS.get(&handle): clone the Arc or fail with
\* "Body handle {} not found".
ReadBodyChunkCall(h) ==
    /\ Len(readers) < MaxReaders
    /\ readers' = Append(readers, NewReader("chunk", h, h \in BODY_STREAMS))
    /\ UNCHANGED <<wsVars, BODY_STREAMS, NEXT_BODY_HANDLE, streams, readAllCalled, dropped, reqVars, sessVars, clientVars>>

\* read_body_all, BODY_STREAMS.remove(&handle): take the Arc out or fail with
\* "Body handle {} not found".
ReadBodyAllCall(h) ==
    /\ Len(readers) < MaxReaders
    /\ readers' = Append(readers, NewReader("all", h, h \in BODY_STREAMS))
    /\ BODY_STREAMS' = read_all_take(h)
    /\ readAllCalled' = IF h < NEXT_BODY_HANDLE THEN readAllCalled \cup {h}
                        ELSE readAllCalled
    /\ UNCHANGED <<wsVars, NEXT_BODY_HANDLE, streams, dropped, reqVars, sessVars, clientVars>>

\* Mutant: the stream is polled without waiting for its mutex.
ReaderLockFree(t) ==
    LET r == readers[t] IN
    /\ r.pc = "lock"
    /\ streams' = [streams EXCEPT ![r.handle].owner = t]
    /\ readers' = [readers EXCEPT ![t].pc = IF r.op = "chunk" THEN "next" ELSE "drain"]
    /\ UNCHANGED <<wsVars, BODY_STREAMS, NEXT_BODY_HANDLE, readAllCalled, dropped, reqVars, sessVars, clientVars>>

\* stream.lock().await: acquire the stream's mutex once it is free.
ReaderLock(t) ==
    LET r == readers[t] IN
    /\ r.pc = "lock"
    /\ streams[r.handle].owner = 0
    /\ streams' = [streams EXCEPT ![r.handle].owner = t]
    /\ readers' = [readers EXCEPT ![t].pc = IF r.op = "chunk" THEN "next" ELSE "drain"]
    /\ UNCHANGED <<wsVars, BODY_STREAMS, NEXT_BODY_HANDLE, readAllCalled, dropped, reqVars, sessVars, clientVars>>

\* read_body_chunk, guard.next().await: one item arrives.
ChunkNext(t) ==
    LET r == readers[t] IN
    /\ r.op = "chunk" /\ r.pc = "next"
    /\ \E item \in StreamItems(streams[r.handle]) :
          /\ readers' = [readers EXCEPT ![t].pc = "match", ![t].next = item]
          /\ streams' = [streams EXCEPT ![r.handle] = StreamAdvance(@, item)]
    /\ UNCHANGED <<wsVars, BODY_STREAMS, NEXT_BODY_HANDLE, readAllCalled, dropped, reqVars, sessVars, clientVars>>

\* Mutant: only the end of the stream removes the handle, an error leaves it.
ChunkMatchErrorKeeps(t) ==
    LET r == readers[t] IN
    /\ r.op = "chunk" /\ r.pc = "match"
    /\ BODY_STREAMS' = IF r.next.kind = "eof" THEN remove_stream(r.handle)
                       ELSE BODY_STREAMS
    /\ streams' = [streams EXCEPT ![r.handle].owner = 0]
    /\ readers' = [readers EXCEPT ![t].pc = "done", ![t].result = r.next,
                                  ![t].next = NoResult]
    /\ UNCHANGED <<wsVars, NEXT_BODY_HANDLE, readAllCalled, dropped, reqVars, sessVars, clientVars>>

\* Mutant: a call that returns a chunk puts its handle back into the store.
ChunkMatchReinserts(t) ==
    LET r == readers[t] IN
    /\ r.op = "chunk" /\ r.pc = "match"
    /\ BODY_STREAMS' = IF r.next.kind = "chunk" THEN BODY_STREAMS \cup {r.handle}
                       ELSE remove_stream(r.handle)
    /\ streams' = [streams EXCEPT ![r.handle].owner = 0]
    /\ readers' = [readers EXCEPT ![t].pc = "done", ![t].result = r.next,
                                  ![t].next = NoResult]
    /\ UNCHANGED <<wsVars, NEXT_BODY_HANDLE, readAllCalled, dropped, reqVars, sessVars, clientVars>>

\* read_body_chunk, match next { .. }: a chunk is returned; a terminal result
\* removes the handle first.  The guard is released when the function returns.
ChunkMatch(t) ==
    LET r == readers[t] IN
    /\ r.op = "chunk" /\ r.pc = "match"
    /\ BODY_STREAMS' = IF r.next.kind = "chunk" THEN BODY_STREAMS
                       ELSE remove_stream(r.handle)
    /\ streams' = [streams EXCEPT ![r.handle].owner = 0]
    /\ readers' = [readers EXCEPT ![t].pc = "done", ![t].result = r.next,
                                  ![t].next = NoResult]
    /\ UNCHANGED <<wsVars, NEXT_BODY_HANDLE, readAllCalled, dropped, reqVars, sessVars, clientVars>>

\* read_body_all, the buffer returned after the loop: no chunk -> empty,
\* one chunk -> that chunk, otherwise the chunks copied into one buffer.
RECURSIVE Concat(_)
Concat(chunks) ==
    IF chunks = <<>> THEN <<>> ELSE Head(chunks) \o Concat(Tail(chunks))

Consolidate(chunks) ==
    IF Len(chunks) = 0 THEN <<>>
    ELSE IF Len(chunks) = 1 THEN chunks[1]
    ELSE Concat(chunks)

\* read_body_all, one turn of `while let Some(result) = guard.next().await`:
\* a chunk is pushed, an error returns it, None leaves the loop and returns
\* the buffer.  The guard is released when the function returns.
AllDrain(t) ==
    LET r == readers[t] IN
    /\ r.op = "all" /\ r.pc = "drain"
    /\ \E item \in StreamItems(streams[r.handle]) :
          /\ readers' = [readers EXCEPT ![t] =
                IF item.kind = "chunk"
                THEN [r EXCEPT !.chunks = Append(r.chunks, item.val)]
                ELSE IF item.kind = "stream_error"
                     THEN [r EXCEPT !.pc = "done", !.result = item, !.chunks = <<>>]
                     ELSE [r EXCEPT !.pc = "done", !.chunks = <<>>,
                                    !.result = Result("bytes", Consolidate(r.chunks))]]
          /\ streams' = [streams EXCEPT ![r.handle] =
                IF item.kind = "chunk" THEN StreamAdvance(@, item)
                ELSE [StreamAdvance(@, item) EXCEPT !.owner = 0]]
    /\ UNCHANGED <<wsVars, BODY_STREAMS, NEXT_BODY_HANDLE, readAllCalled, dropped, reqVars, sessVars, clientVars>>

\* Mutant: the drop is noted but the handle stays in the store.
DropBodyStreamLazy(h) ==
    /\ BODY_STREAMS' = BODY_STREAMS
    /\ dropped' = IF h < NEXT_BODY_HANDLE THEN dropped \cup {h} ELSE dropped
    /\ UNCHANGED <<wsVars, NEXT_BODY_HANDLE, streams, readers, readAllCalled, reqVars, sessVars, clientVars>>

\* drop_body_stream(handle) (cancelBody): remove without reading.
DropBodyStream(h) ==
    /\ BODY_STREAMS' = remove_stream(h)
    /\ dropped' = IF h < NEXT_BODY_HANDLE THEN dropped \cup {h} ELSE dropped
    /\ UNCHANGED <<wsVars, NEXT_BODY_HANDLE, streams, readers, readAllCalled, reqVars, sessVars, clientVars>>


\* ------------------------------------------------------------ registries
EmptyMap == [k \in {} |-> 0]
Put(map, k, v) == [x \in DOMAIN map \cup {k} |-> IF x = k THEN v ELSE map[x]]
Del(map, k) == [x \in DOMAIN map \ {k} |-> map[x]]

\* SessionConfig::from_request: the cache key of an ephemeral client.
SessionConfig(options) ==
    [emulation |-> options.emulation, emulation_os |-> options.emulation_os,
     proxy |-> options.proxy, insecure |-> options.insecure]

\* TransportConfig::from_request: SessionConfig plus the pool tunables.
TransportConfig(options) ==
    [emulation |-> options.emulation, emulation_os |-> options.emulation_os,
     proxy |-> options.proxy, insecure |-> options.insecure,
     pool_max_size |-> options.pool_max_size]

\* Proxy::all(proxy_url) fails on a string that is no URL; the client build
\* then fails with "Failed to create proxy".
BuildFails(config) == config.proxy = "not a url"

\* build_client(&config): a client with the full pooling configuration.
build_client(config) == [purpose |-> "Transport", config |-> config]

\* build_ephemeral_client(&config): pool_max_idle_per_host(0), no tunables.
build_ephemeral_client(config) == [purpose |-> "Ephemeral", config |-> config]

\* ------------------------------------------------------ transport registry
\* TransportManager::create_transport / createTransport: build the client,
\* generate a UUID (a fresh id), insert.  A failed build throws.
CreateTransport(config) ==
    /\ transportIds < MaxTransports
    /\ Len(clients) < MaxClients
    /\ ~BuildFails(config)
    /\ clients' = Append(clients, build_client(config))
    /\ transportIds' = transportIds + 1
    /\ TRANSPORT_MANAGER' = Put(TRANSPORT_MANAGER, transportIds + 1, Len(clients) + 1)
    /\ UNCHANGED <<wsVars, EPHEMERAL_MANAGER, clientForReturned, dropTransportCalls,
                   bodyVars, reqVars, sessVars>>

\* TransportManager::get_transport: the client of the id, 0 for the
\* "Transport '{}' not found" error.
get_transport(transport_id) ==
    IF transport_id \in DOMAIN TRANSPORT_MANAGER THEN TRANSPORT_MANAGER[transport_id] ELSE 0

\* Mutant: the entry stays in the registry.
drop_transport_keep(tid) == TRANSPORT_MANAGER

\* TransportManager::drop_transport: self.explicit.remove(transport_id).
drop_transport(tid) == Del(TRANSPORT_MANAGER, tid)

\* dropTransport(id).
DropTransport(tid) ==
    /\ TRANSPORT_MANAGER' = drop_transport(tid)
    /\ dropTransportCalls' = IF tid <= transportIds THEN dropTransportCalls \cup {tid}
                             ELSE dropTransportCalls
    /\ UNCHANGED <<wsVars, transportIds, EPHEMERAL_MANAGER, clients, clientForReturned,
                   bodyVars, reqVars, sessVars>>

\* -------------------------------------------------------- session registry
\* create_managed_session / SessionManager::create_session: a fresh jar
\* replaces whatever the id was bound to.
create_managed_session(session_id) ==
    /\ jars' = Append(jars, {})
    /\ SESSION_MANAGER' = Put(SESSION_MANAGER, session_id, Len(jars) + 1)

\* SessionManager::create_session as the registry sees it.
CreateSession(sid) ==
    /\ Len(jars) < MaxJars
    /\ create_managed_session(sid)
    /\ UNCHANGED <<wsVars, sessionCall, bodyVars, reqVars, clientVars>>

\* An Option<String> argument is a sequence: <<>> for None, <<s>> for Some(s).
\* generate_session_id(): Uuid::new_v4().to_string(), a string not seen before.
generate_session_id == "uuid-" \o ToString(Len(jars) + 1)

\* createSession(options?), the export: the id is
\* session_id_opt.unwrap_or_else(generate_session_id); it is registered and
\* returned to the host.
create_session(session_id_opt) ==
    LET session_id == IF session_id_opt = <<>> THEN generate_session_id
                      ELSE session_id_opt[1]
    IN
    /\ Len(jars) < MaxJars
    /\ create_managed_session(session_id)
    /\ sessionCall' = [op |-> "create", arg |-> session_id_opt, result |-> session_id,
                       jar |-> Len(jars) + 1, seen |-> Len(requests)]
    /\ UNCHANGED <<wsVars, bodyVars, reqVars, clientVars>>

\* clear_managed_session / SessionManager::clear_session: cache.get, then
\* cookie_jar.clear(); on a missing id nothing changes.
clear_managed_session(session_id) ==
    /\ jars' = IF session_id \in DOMAIN SESSION_MANAGER
               THEN [jars EXCEPT ![SESSION_MANAGER[session_id]] = {}]
               ELSE jars
    /\ SESSION_MANAGER' = SESSION_MANAGER

\* SessionManager::clear_session as the registry sees it.
ClearSession(sid) ==
    /\ clear_managed_session(sid)
    /\ UNCHANGED <<wsVars, sessionCall, bodyVars, reqVars, clientVars>>

\* clearSession(id), the export: throws "Session '{}' not found" when
\* clear_managed_session returns the error.
clear_session(session_id) ==
    /\ clear_managed_session(session_id)
    /\ sessionCall' = [op |-> "clear", arg |-> <<session_id>>,
                       result |-> IF session_id \in DOMAIN SESSION_MANAGER THEN "ok"
                                  ELSE "session_not_found",
                       jar |-> IF session_id \in DOMAIN SESSION_MANAGER
                               THEN SESSION_MANAGER[session_id] ELSE 0,
                       seen |-> Len(requests)]
    /\ UNCHANGED <<wsVars, bodyVars, reqVars, clientVars>>

\* SessionManager::drop_session / dropSession: cache.invalidate.
DropSession(sid) ==
    /\ SESSION_MANAGER' = Del(SESSION_MANAGER, sid)
    /\ UNCHANGED <<wsVars, jars, sessionCall, bodyVars, reqVars, clientVars>>

\* The moka cache evicts an entry that has been idle for time_to_idle (300 s).
ExpireSession(sid) ==
    /\ sid \in DOMAIN SESSION_MANAGER
    /\ SESSION_MANAGER' = Del(SESSION_MANAGER, sid)
    /\ UNCHANGED <<wsVars, jars, sessionCall, bodyVars, reqVars, clientVars>>

\* --------------------------------------------------------- request pipeline
\* Method names are ASCII strings, written as sequences of character codes.
GET     == <<71, 69, 84>>
POST    == <<80, 79, 83, 84>>
PUT     == <<80, 85, 84>>
DELETE  == <<68, 69, 76, 69, 84, 69>>
PATCH   == <<80, 65, 84, 67, 72>>
HEAD    == <<72, 69, 65, 68>>
OPTIONS == <<79, 80, 84, 73, 79, 78, 83>>
CONNECT == <<67, 79, 78, 78, 69, 67, 84>>
TRACE   == <<84, 82, 65, 67, 69>>
StandardMethods == {GET, POST, PUT, DELETE, PATCH, HEAD, OPTIONS, CONNECT, TRACE}

\* Method::from_bytes accepts a non-empty string of HTTP token characters.
IsTokenChar(c) ==
    \/ c \in 48 .. 57 \/ c \in 65 .. 90 \/ c \in 97 .. 122
    \/ c \in {33, 35, 36, 37, 38, 39, 42, 43, 45, 46, 94, 95, 96, 124, 126}

ValidMethodToken(m) == Len(m) > 0 /\ \A i \in 1 .. Len(m) : IsTokenChar(m[i])

\* Mutant: the empty method is not replaced by GET.
NormaliseMethodNoDefault(method) == method

\* make_request_inner: `if method.is_empty() { "GET" } else { method }`.
NormaliseMethod(method) == IF method = <<>> THEN GET ELSE method

\* make_request_inner, `match method.as_ref()`: TRUE when a Method results,
\* FALSE when the request fails with "Unsupported HTTP method".
MethodAccepted(method) ==
    NormaliseMethod(method) \in StandardMethods
        \/ ValidMethodToken(NormaliseMethod(method))

\* The Method of `match method.as_ref()`: one of the nine standard methods or
\* an extension method carrying the token as given; NoMethod when
\* Method::from_bytes fails.
NoMethod == [standard |-> FALSE, name |-> <<>>]

request_method(method) ==
    LET m == NormaliseMethod(method) IN
    IF m \in StandardMethods THEN [standard |-> TRUE, name |-> m]
    ELSE IF ValidMethodToken(m) THEN [standard |-> FALSE, name |-> m]
    ELSE NoMethod

ToAsciiUpper(m) == [i \in 1 .. Len(m) |-> IF m[i] \in 97 .. 122 THEN m[i] - 32 ELSE m[i]]

\* Mutant: 205 Reset Content is missing from the statuses without a body.
response_allows_body_205(status, method) ==
    IF ToAsciiUpper(method) = HEAD THEN FALSE
    ELSE status \notin {101, 204, 304}

\* Mutant: the method is not looked at.
response_allows_body_any_method(status, method) ==
    status \notin {101, 204, 205, 304}

\* response_allows_body(status, method)
response_allows_body(status, method) ==
    IF ToAsciiUpper(method) = HEAD THEN FALSE
    ELSE status \notin {101, 204, 205, 304}

\* Mutant: a body of exactly INLINE_BODY_MAX bytes is streamed.
inline_eligible_below(content_length) ==
    content_length # None /\ content_length < INLINE_BODY_MAX

\* make_request_inner: content_length.map(|len| len <= INLINE_BODY_MAX).unwrap_or(false)
inline_eligible(content_length) ==
    content_length # None /\ content_length <= INLINE_BODY_MAX

\* The Result<Response> of a request: `kind` is "ok" or the error, the other
\* fields are those of Response (body_handle 0 and body_bytes / content_length
\* None when absent; body_bytes is the number of inline bytes).  `hint` keeps
\* the content length the server announced (response.content_length()).
NoResponse ==
    [kind |-> "none", status |-> 0, body_handle |-> 0, body_bytes |-> None,
     content_length |-> None, hint |-> None]
Failure(kind) == [NoResponse EXCEPT !.kind = kind]

\* Mutant: the cancellation branch can still win after make_request returned.
InSelectLate(r) == r.pc \in {"start", "send", "bytes", "selected"}

\* The select! of a cancellable request is pending: make_request has not
\* returned yet.
InSelect(r) == r.pc \in {"start", "send", "bytes"}

\* request(options, request_id, cancellable): register the token (cancellable
\* only) and spawn the task.  `stored` remembers the body handle the
\* request's make_request stored (0: none).
Request(request_id, cancellable, options) ==
    /\ Len(requests) < MaxRequests
    /\ requests' = Append(requests,
          [request_id |-> request_id, cancellable |-> cancellable,
           options |-> options, pc |-> "start", client |-> 0, cookie_jar |-> 0,
           prior |-> {}, built |-> FALSE, method |-> NoMethod, stored |-> 0,
           result |-> NoResponse])
    /\ REQUEST_CANCELLATIONS' =
          IF cancellable THEN Put(REQUEST_CANCELLATIONS, request_id, Len(requests) + 1)
          ELSE REQUEST_CANCELLATIONS
    /\ UNCHANGED <<wsVars, cancelled, cancelCalls, lastCancelId, bodyVars, sessVars, clientVars>>

\* Mutant: every registered token is removed and cancelled.
CancelRequestAll(request_id) ==
    /\ cancelled' = cancelled \cup {REQUEST_CANCELLATIONS[id] : id \in DOMAIN REQUEST_CANCELLATIONS}
    /\ REQUEST_CANCELLATIONS' = EmptyMap
    /\ cancelCalls' = cancelCalls
    /\ lastCancelId' = request_id
    /\ UNCHANGED <<wsVars, requests, bodyVars, sessVars, clientVars>>

\* Mutant: the body streams of the responses to the id are dropped as well.
CancelRequestDropsBody(request_id) ==
    /\ IF request_id \in DOMAIN REQUEST_CANCELLATIONS
       THEN /\ cancelled' = cancelled \cup {REQUEST_CANCELLATIONS[request_id]}
            /\ REQUEST_CANCELLATIONS' = Del(REQUEST_CANCELLATIONS, request_id)
       ELSE UNCHANGED <<cancelled, REQUEST_CANCELLATIONS>>
    /\ cancelCalls' = cancelCalls \cup
          {q \in DOMAIN requests :
              requests[q].cancellable /\ requests[q].request_id = request_id}
    /\ lastCancelId' = request_id
    /\ BODY_STREAMS' = BODY_STREAMS \
          {requests[q].result.body_handle :
              q \in {p \in DOMAIN requests : requests[p].request_id = request_id}}
    /\ UNCHANGED <<wsVars, requests, NEXT_BODY_HANDLE, streams, readers, readAllCalled,
                   dropped, sessVars, clientVars>>

\* cancel_request(request_id): remove the token registered under the id, if
\* any, and cancel it.
CancelRequest(request_id) ==
    /\ IF request_id \in DOMAIN REQUEST_CANCELLATIONS
       THEN /\ cancelled' = cancelled \cup {REQUEST_CANCELLATIONS[request_id]}
            /\ REQUEST_CANCELLATIONS' = Del(REQUEST_CANCELLATIONS, request_id)
       ELSE UNCHANGED <<cancelled, REQUEST_CANCELLATIONS>>
    /\ cancelCalls' = cancelCalls \cup
          {q \in DOMAIN requests :
              requests[q].cancellable /\ requests[q].request_id = request_id}
    /\ lastCancelId' = request_id
    /\ UNCHANGED <<wsVars, requests, bodyVars, sessVars, clientVars>>

\* make_request returns `result`: the select! of a cancellable request
\* resolves with it; a non-cancellable task goes on to settle.
Returns(r, result) == [r EXCEPT !.pc = "selected", !.result = result]

\* The client_for calls on `config` that have returned a client, the key not
\* evicted since.
ReturnedFor(config) ==
    {p \in clientForReturned : SessionConfig(requests[p].options) = config}

\* Mutant: the ephemeral flag is looked at before the transport id.
client_source_ephemeral_first(options) ==
    IF options.ephemeral THEN "ephemeral"
    ELSE IF options.transport_id # None THEN "transport"
    ELSE "fresh"

\* make_request, the chain `if let Some(ref tid) = transport_id { .. } else if
\* options.ephemeral { .. } else { .. }`: where the client is taken from.
client_source(options) ==
    IF options.transport_id # None THEN "transport"
    ELSE IF options.ephemeral THEN "ephemeral"
    ELSE "fresh"

\* make_request, "Resolve client": explicit transport > ephemeral cache >
\* fresh client.  The ephemeral path stops after cache.get on a miss.
ResolveClient(q) ==
    LET r == requests[q]
        o == r.options
    IN
    /\ r.pc = "start"
    /\ IF client_source(o) = "transport"
       THEN /\ requests' = [requests EXCEPT ![q] =
                  IF get_transport(o.transport_id) # 0
                  THEN [r EXCEPT !.pc = "jar",
                                 !.client = get_transport(o.transport_id)]
                  ELSE Returns(r, Failure("transport_not_found"))]
            /\ UNCHANGED <<clients, clientForReturned>>
       ELSE IF client_source(o) = "ephemeral"
       THEN /\ requests' = [requests EXCEPT ![q] =
                  IF SessionConfig(o) \in DOMAIN EPHEMERAL_MANAGER
                  THEN [r EXCEPT !.pc = "jar", !.prior = ReturnedFor(SessionConfig(o)),
                                 !.client = EPHEMERAL_MANAGER[SessionConfig(o)]]
                  ELSE [r EXCEPT !.pc = "client_for",
                                 !.prior = ReturnedFor(SessionConfig(o))]]
            /\ clientForReturned' =
                  IF SessionConfig(o) \in DOMAIN EPHEMERAL_MANAGER
                  THEN clientForReturned \cup {q} ELSE clientForReturned
            /\ UNCHANGED clients
       ELSE IF BuildFails(TransportConfig(o))
       THEN /\ requests' = [requests EXCEPT ![q] = Returns(r, Failure("client_build"))]
            /\ UNCHANGED <<clients, clientForReturned>>
       ELSE /\ Len(clients) < MaxClients
            /\ clients' = Append(clients, build_client(TransportConfig(o)))
            /\ requests' = [requests EXCEPT ![q] =
                  [r EXCEPT !.pc = "jar", !.client = Len(clients) + 1]]
            /\ UNCHANGED clientForReturned
    /\ UNCHANGED <<wsVars, TRANSPORT_MANAGER, transportIds, EPHEMERAL_MANAGER, dropTransportCalls,
                   REQUEST_CANCELLATIONS, cancelled, cancelCalls, lastCancelId, bodyVars, sessVars>>

\* EphemeralClientManager::client_for after a miss: build the client and
\* cache.insert it.
ClientForInsert(q) ==
    LET r == requests[q]
        config == SessionConfig(r.options)
    IN
    /\ r.pc = "client_for"
    /\ IF BuildFails(config)
       THEN /\ requests' = [requests EXCEPT ![q] = Returns(r, Failure("client_build"))]
            /\ UNCHANGED <<clients, EPHEMERAL_MANAGER, clientForReturned>>
       ELSE /\ Len(clients) < MaxClients
            /\ clients' = Append(clients, build_ephemeral_client(config))
            /\ EPHEMERAL_MANAGER' = Put(EPHEMERAL_MANAGER, config, Len(clients) + 1)
            /\ clientForReturned' = clientForReturned \cup {q}
            /\ requests' = [requests EXCEPT ![q] =
                  [r EXCEPT !.pc = "jar", !.client = Len(clients) + 1, !.built = TRUE]]
    /\ UNCHANGED <<wsVars, TRANSPORT_MANAGER, transportIds, dropTransportCalls,
                   REQUEST_CANCELLATIONS, cancelled, cancelCalls, lastCancelId, bodyVars, sessVars>>

\* The moka cache evicts a client that has been idle for time_to_idle (300 s).
ExpireClient(config) ==
    /\ config \in DOMAIN EPHEMERAL_MANAGER
    /\ EPHEMERAL_MANAGER' = Del(EPHEMERAL_MANAGER, config)
    /\ clientForReturned' = clientForReturned \ ReturnedFor(config)
    /\ UNCHANGED <<wsVars, TRANSPORT_MANAGER, transportIds, clients, dropTransportCalls,
                   bodyVars, reqVars, sessVars>>

\* make_request_inner up to request.send().await: the method is parsed, the
\* request built and bound to the jar, and the send begins.
BeginSend(r, jar) ==
    IF MethodAccepted(r.options.method)
    THEN [r EXCEPT !.pc = "send", !.cookie_jar = jar,
                   !.method = request_method(r.options.method)]
    ELSE [Returns(r, Failure("bad_method")) EXCEPT !.cookie_jar = jar]

\* Mutant: every request takes the jar of its session id.
uses_fresh_jar_never(options) == FALSE

\* make_request, `if options.ephemeral { Arc::new(Jar::default()) }`.
uses_fresh_jar(options) == options.ephemeral

\* make_request, "Resolve cookie jar": a fresh jar when ephemeral, otherwise
\* SessionManager::jar_for, which stops after cache.get on a miss.
ResolveJar(q) ==
    LET r == requests[q]
        sid == r.options.session_id
    IN
    /\ r.pc = "jar"
    /\ IF uses_fresh_jar(r.options)
       THEN /\ Len(jars) < MaxJars
            /\ jars' = Append(jars, {})
            /\ requests' = [requests EXCEPT ![q] = BeginSend(r, Len(jars) + 1)]
       ELSE /\ jars' = jars
            /\ requests' = [requests EXCEPT ![q] =
                  IF sid \in DOMAIN SESSION_MANAGER
                  THEN BeginSend(r, SESSION_MANAGER[sid])
                  ELSE [r EXCEPT !.pc = "jar_for"]]
    /\ UNCHANGED <<wsVars, SESSION_MANAGER, sessionCall, REQUEST_CANCELLATIONS, cancelled, cancelCalls, lastCancelId,
                   bodyVars, clientVars>>

\* SessionManager::jar_for after a miss: a new SessionEntry is inserted under
\* the id and its jar returned.
jar_for_insert(sid) ==
    /\ jars' = Append(jars, {})
    /\ SESSION_MANAGER' = Put(SESSION_MANAGER, sid, Len(jars) + 1)

JarForInsert(q) ==
    LET r == requests[q] IN
    /\ r.pc = "jar_for"
    /\ Len(jars) < MaxJars
    /\ jar_for_insert(r.options.session_id)
    /\ requests' = [requests EXCEPT ![q] = BeginSend(r, Len(jars) + 1)]
    /\ UNCHANGED <<wsVars, sessionCall, REQUEST_CANCELLATIONS, cancelled, cancelCalls, lastCancelId, bodyVars, clientVars>>

\* make_request_inner after send() has resolved with a response: Set-Cookie
\* headers reach the bound jar, then the body is left out (not allowed),
\* awaited inline (eligible) or stored as a stream.
SendComplete(q, status, content_length, set_cookie) ==
    LET r == requests[q]
        allows_body == response_allows_body(status, NormaliseMethod(r.options.method))
        response == [NoResponse EXCEPT !.status = status,
                                       !.content_length = content_length,
                                       !.hint = content_length]
    IN
    /\ r.pc = "send"
    /\ jars' = IF set_cookie THEN [jars EXCEPT ![r.cookie_jar] = @ \cup {"sid"}]
               ELSE jars
    /\ IF allows_body /\ inline_eligible(content_length)
       THEN /\ requests' = [requests EXCEPT ![q] =
                  [r EXCEPT !.pc = "bytes", !.result = response]]
            /\ UNCHANGED <<BODY_STREAMS, NEXT_BODY_HANDLE, streams>>
       ELSE IF allows_body
       THEN /\ NEXT_BODY_HANDLE <= MaxHandles
            /\ store_body_stream
            /\ requests' = [requests EXCEPT ![q] =
                  [Returns(r, [response EXCEPT !.kind = "ok",
                                               !.body_handle = next_body_handle])
                      EXCEPT !.stored = next_body_handle]]
       ELSE /\ requests' = [requests EXCEPT ![q] =
                  Returns(r, [response EXCEPT !.kind = "ok"])]
            /\ UNCHANGED <<BODY_STREAMS, NEXT_BODY_HANDLE, streams>>
    /\ UNCHANGED <<wsVars, readers, readAllCalled, dropped, SESSION_MANAGER, sessionCall,
                   REQUEST_CANCELLATIONS, cancelled, cancelCalls, lastCancelId, clientVars>>

\* request.send().await fails (connect error, timeout, redirect refused).
SendFail(q) ==
    LET r == requests[q] IN
    /\ r.pc = "send"
    /\ requests' = [requests EXCEPT ![q] = Returns(r, Failure("send_failed"))]
    /\ UNCHANGED <<wsVars, REQUEST_CANCELLATIONS, cancelled, cancelCalls, lastCancelId, bodyVars, sessVars,
                   clientVars>>

\* response.bytes().await yields the `len` bytes of the body: they are the
\* inline body and content_length is overwritten with their number.
BytesComplete(q, len) ==
    LET r == requests[q] IN
    /\ r.pc = "bytes"
    /\ requests' = [requests EXCEPT ![q] =
          Returns(r, [r.result EXCEPT !.kind = "ok", !.body_bytes = len,
                                      !.content_length = len])]
    /\ UNCHANGED <<wsVars, REQUEST_CANCELLATIONS, cancelled, cancelCalls, lastCancelId, bodyVars, sessVars,
                   clientVars>>

\* response.bytes().await fails.
BytesFail(q) ==
    LET r == requests[q] IN
    /\ r.pc = "bytes"
    /\ requests' = [requests EXCEPT ![q] = Returns(r, Failure("body_failed"))]
    /\ UNCHANGED <<wsVars, REQUEST_CANCELLATIONS, cancelled, cancelCalls, lastCancelId, bodyVars, sessVars,
                   clientVars>>

\* select!: the token.cancelled() branch wins while make_request is pending
\* at an await point (or has not been polled yet); the future is dropped.
Abort(q) ==
    LET r == requests[q] IN
    /\ r.cancellable /\ q \in cancelled
    /\ InSelect(r)
    /\ requests' = [requests EXCEPT ![q] = Returns(r, Failure("request_aborted"))]
    /\ UNCHANGED <<wsVars, REQUEST_CANCELLATIONS, cancelled, cancelCalls, lastCancelId, bodyVars, sessVars,
                   clientVars>>

\* After the select! (or after make_request when not cancellable):
\* REQUEST_CANCELLATIONS.remove(&request_id), then deferred.settle_with.
Settle(q) ==
    LET r == requests[q] IN
    /\ r.pc = "selected"
    /\ REQUEST_CANCELLATIONS' =
          IF r.cancellable THEN Del(REQUEST_CANCELLATIONS, r.request_id)
          ELSE REQUEST_CANCELLATIONS
    /\ requests' = [requests EXCEPT ![q].pc = "settled"]
    /\ UNCHANGED <<wsVars, cancelled, cancelCalls, lastCancelId, bodyVars, sessVars, clientVars>>

\* ------------------------------------------------------------- WebSockets
\* WsEvent: what the reader task sends to the dispatcher task.  A Text or
\* Binary payload is identified by its position among the data frames.
WsEvent(kind, val) == [kind |-> kind, val |-> val]
Frames == {"text", "binary", "ping", "pong", "close", "error", "end"}
DataFrames == {"text", "binary"}

\* Mutant: a Ping or Pong frame is forwarded like a Text frame.
reader_events_ping(frame, k) ==
    IF frame \in {"text", "ping", "pong"} THEN <<WsEvent("text", k)>>
    ELSE IF frame = "binary" THEN <<WsEvent("binary", k)>>
    ELSE IF frame = "close" THEN <<WsEvent("close", 0), WsEvent("close", 0)>>
    ELSE IF frame = "error"
    THEN <<WsEvent("error", 0), WsEvent("close", 0), WsEvent("close", 0)>>
    ELSE <<WsEvent("close", 0)>>

\* Mutant: after a receive error the Close event is sent before the Error event.
reader_events_close_first(frame, k) ==
    IF frame = "text" THEN <<WsEvent("text", k)>>
    ELSE IF frame = "binary" THEN <<WsEvent("binary", k)>>
    ELSE IF frame = "close" THEN <<WsEvent("close", 0), WsEvent("close", 0)>>
    ELSE IF frame = "error"
    THEN <<WsEvent("close", 0), WsEvent("error", 0), WsEvent("close", 0)>>
    ELSE IF frame = "end" THEN <<WsEvent("close", 0)>>
    ELSE <<>>

\* The reader task, `match msg_result` and the send after the loop: the
\* events sent for the item receiver.next() yielded.  A Close frame, a
\* receive error and the end of the stream ("end") leave the loop, after
\* which one more Close event is sent.
reader_events(frame, k) ==
    IF frame = "text" THEN <<WsEvent("text", k)>>
    ELSE IF frame = "binary" THEN <<WsEvent("binary", k)>>
    ELSE IF frame = "close" THEN <<WsEvent("close", 0), WsEvent("close", 0)>>
    ELSE IF frame = "error"
    THEN <<WsEvent("error", 0), WsEvent("close", 0), WsEvent("close", 0)>>
    ELSE IF frame = "end" THEN <<WsEvent("close", 0)>>
    ELSE <<>>

\* Mutant: the reader goes on reading after a Close frame.
leaves_loop_not_on_close(frame) == frame \in {"error", "end"}

\* The frames after which the reader leaves its loop.
leaves_loop(frame) == frame \in {"close", "error", "end"}

\* A closure queued on the host's event loop for connection `w`: an
\* onMessage / onError / onClose call with its argument, or the settlement
\* of the connect promise.
Closure(kind, w, event) == [kind |-> kind, w |-> w, val |-> event]

\* Mutant: the close_emitted latch is not looked at.
close_closures_unlatched(w) ==
    IF sockets[w].on_close THEN <<Closure("close", w, WsEvent("close", 0))>> ELSE <<>>

\* Mutant: no onClose closure is ever queued.
close_closures_never(w) == <<>>

\* The dispatcher task, `if !close_emitted { if let Some(on_close) .. }`: the
\* closures queued when a Close event arrives or the channel has closed.
close_closures(w) ==
    IF ~sockets[w].close_emitted /\ sockets[w].on_close
    THEN <<Closure("close", w, WsEvent("close", 0))>> ELSE <<>>

\* Permits of the dispatcher's semaphore in use: one per onMessage closure
\* that the host has not run yet.
PermitsInUse(w) ==
    Cardinality({i \in DOMAIN hostQueue :
                    hostQueue[i].w = w /\ hostQueue[i].kind = "message"})

\* websocketConnect(options): the task is spawned with the callbacks rooted;
\* onMessage is required, onClose and onError are optional.  The host issues
\* at most `limit` calls.
WebsocketConnects(on_close, on_error, limit) ==
    /\ Len(sockets) < limit
    /\ sockets' = Append(sockets,
          [pc |-> "connecting", id |-> 0, on_close |-> on_close, on_error |-> on_error,
           rpc |-> "idle", outbox |-> <<>>, after |-> "next", channel |-> <<>>,
           received |-> <<>>, pings |-> 0, ended |-> "none",
           dpc |-> "idle", event |-> WsEvent("none", 0), close_emitted |-> FALSE,
           close_sent |-> FALSE])
    /\ UNCHANGED <<WS_CONNECTIONS, NEXT_WS_ID, hostQueue, callbacks, closers, senders, upgrade,
                   bodyVars, reqVars, sessVars, clientVars>>

WebsocketConnect(on_close, on_error) == WebsocketConnects(on_close, on_error, MaxSockets)

\* connect_websocket(options).await fails: the promise is rejected, nothing
\* is stored and no task is spawned.
ConnectFail(w) ==
    /\ sockets[w].pc = "connecting"
    /\ sockets' = [sockets EXCEPT ![w].pc = "failed"]
    /\ hostQueue' = Append(hostQueue, Closure("settle", w, WsEvent("rejected", 0)))
    /\ UNCHANGED <<WS_CONNECTIONS, NEXT_WS_ID, callbacks, closers, senders, upgrade,
                   bodyVars, reqVars, sessVars, clientVars>>

\* store_connection(connection): allocate the next id and insert.
store_connection ==
    /\ NEXT_WS_ID' = NEXT_WS_ID + 1
    /\ WS_CONNECTIONS' = WS_CONNECTIONS \cup {NEXT_WS_ID}

\* connect_websocket(options).await succeeds: the connection is stored, the
\* event channel created, the reader and the dispatcher task spawned, and
\* the promise settled with the id.
ConnectDone(w) ==
    /\ sockets[w].pc = "connecting"
    /\ store_connection
    /\ sockets' = [sockets EXCEPT ![w].pc = "open", ![w].id = NEXT_WS_ID,
                                  ![w].rpc = "next", ![w].dpc = "recv"]
    /\ hostQueue' = Append(hostQueue, Closure("settle", w, WsEvent("resolved", NEXT_WS_ID)))
    /\ UNCHANGED <<callbacks, closers, senders, upgrade, bodyVars, reqVars, sessVars, clientVars>>

\* The reader task, receiver.next().await: the next item of the read half
\* arrives, as the network decides; the peer sends at most `limit` data frames.
ReaderReads(w, frame, limit) ==
    LET k == Len(sockets[w].received) + 1
        sends == reader_events(frame, k)
    IN
    /\ sockets[w].rpc = "next"
    /\ frame \in DataFrames => Len(sockets[w].received) < limit
    /\ frame \in {"ping", "pong"} => sockets[w].pings < MaxPings
    /\ sockets' = [sockets EXCEPT
          ![w].received = IF frame \in DataFrames THEN Append(@, WsEvent(frame, k)) ELSE @,
          ![w].pings = IF frame \in {"ping", "pong"} THEN @ + 1 ELSE @,
          ![w].ended = IF leaves_loop(frame) THEN frame ELSE @,
          ![w].outbox = sends,
          ![w].after = IF leaves_loop(frame) THEN "done" ELSE "next",
          ![w].rpc = IF sends = <<>> THEN "next" ELSE "send"]
    /\ UNCHANGED <<WS_CONNECTIONS, NEXT_WS_ID, hostQueue, callbacks, closers, senders, upgrade,
                   bodyVars, reqVars, sessVars, clientVars>>

ReaderNext(w, frame) == ReaderReads(w, frame, MaxFrames)

\* Mutant: the channel is unbounded, a send never waits.
channel_has_room_always(w) == TRUE

\* mpsc::channel::<WsEvent>(WS_EVENT_BUFFER): a send completes only when the
\* channel holds fewer than WS_EVENT_BUFFER events.
channel_has_room(w) == Len(sockets[w].channel) < WS_EVENT_BUFFER

\* The reader task, receiver_tx.send(event).await: waits for room in the
\* channel; fails once the dispatcher has dropped the receiving end, which
\* ends the task (a failed Text / Binary send breaks the loop, and the
\* sends that follow fail as well).
ReaderSend(w) ==
    LET so == sockets[w] IN
    /\ so.rpc = "send"
    /\ IF so.dpc = "done"
       THEN sockets' = [sockets EXCEPT ![w].outbox = <<>>, ![w].rpc = "done"]
       ELSE /\ channel_has_room(w)
            /\ sockets' = [sockets EXCEPT
                  ![w].channel = Append(@, Head(so.outbox)),
                  ![w].outbox = Tail(@),
                  ![w].rpc = IF Tail(so.outbox) = <<>> THEN so.after ELSE "send"]
    /\ UNCHANGED <<WS_CONNECTIONS, NEXT_WS_ID, hostQueue, callbacks, closers, senders, upgrade,
                   bodyVars, reqVars, sessVars, clientVars>>

\* The dispatcher task, events_rx.recv().await yields an event: a Text or
\* Binary event next needs a permit; an Error event queues onError when the
\* callback exists; a Close event queues onClose unless the latch is set.
DispatcherRecv(w) ==
    LET so == sockets[w]
        event == Head(so.channel)
    IN
    /\ so.dpc = "recv"
    /\ so.channel # <<>>
    /\ IF event.kind \in DataFrames
       THEN /\ sockets' = [sockets EXCEPT ![w].channel = Tail(@), ![w].event = event,
                                          ![w].dpc = "permit"]
            /\ hostQueue' = hostQueue
       ELSE IF event.kind = "error"
       THEN /\ sockets' = [sockets EXCEPT ![w].channel = Tail(@)]
            /\ hostQueue' = IF so.on_error THEN Append(hostQueue, Closure("error", w, event))
                            ELSE hostQueue
       ELSE /\ sockets' = [sockets EXCEPT ![w].channel = Tail(@),
                                          ![w].close_emitted = TRUE]
            /\ hostQueue' = hostQueue \o close_closures(w)
    /\ UNCHANGED <<WS_CONNECTIONS, NEXT_WS_ID, callbacks, closers, senders, upgrade,
                   bodyVars, reqVars, sessVars, clientVars>>

\* The dispatcher task, permits_consumer.acquire_owned().await, then
\* channel.send(closure): the onMessage closure is queued with its permit.
DispatcherPermit(w) ==
    LET so == sockets[w] IN
    /\ so.dpc = "permit"
    /\ PermitsInUse(w) < WS_EVENT_BUFFER
    /\ hostQueue' = Append(hostQueue, Closure("message", w, so.event))
    /\ sockets' = [sockets EXCEPT ![w].dpc = "recv", ![w].event = WsEvent("none", 0)]
    /\ UNCHANGED <<WS_CONNECTIONS, NEXT_WS_ID, callbacks, closers, senders, upgrade,
                   bodyVars, reqVars, sessVars, clientVars>>

\* Mutant: the entry stays in the registry.
remove_connection_keep(id) == WS_CONNECTIONS

\* remove_connection(id): WS_CONNECTIONS.remove(&id).
remove_connection(id) == WS_CONNECTIONS \ {id}

\* The dispatcher task after its loop: recv() returned None because the
\* channel is empty and the reader task, the only sender left, has ended.
\* onClose is queued if it never was, and the connection id removed.
DispatcherExit(w) ==
    LET so == sockets[w] IN
    /\ so.dpc = "recv"
    /\ so.channel = <<>> /\ so.rpc = "done"
    /\ hostQueue' = hostQueue \o close_closures(w)
    /\ WS_CONNECTIONS' = remove_connection(so.id)
    /\ sockets' = [sockets EXCEPT ![w].dpc = "done"]
    /\ UNCHANGED <<NEXT_WS_ID, callbacks, closers, senders, upgrade, bodyVars, reqVars, sessVars, clientVars>>

\* The host's event loop runs the closure at the head of its queue: a
\* callback is invoked (and the permit of an onMessage closure released), or
\* the connect promise settled.
HostRun ==
    /\ hostQueue # <<>>
    /\ hostQueue' = Tail(hostQueue)
    /\ callbacks' = IF Head(hostQueue).kind = "settle" THEN callbacks
                    ELSE Append(callbacks, Head(hostQueue))
    /\ UNCHANGED <<WS_CONNECTIONS, NEXT_WS_ID, sockets, closers, senders, upgrade,
                   bodyVars, reqVars, sessVars, clientVars>>

\* get_connection(id)
get_connection(id) == id \in WS_CONNECTIONS

\* websocketClose(conn): throws "WebSocket connection not found" when the id
\* is not in the registry, otherwise spawns the closing task.
WebsocketClose(id) ==
    /\ Len(closers) < MaxClosers
    /\ closers' = Append(closers,
          IF get_connection(id) THEN [id |-> id, pc |-> "close", result |-> "none"]
          ELSE [id |-> id, pc |-> "done", result |-> "not_found"])
    /\ UNCHANGED <<WS_CONNECTIONS, NEXT_WS_ID, sockets, hostQueue, callbacks, senders, upgrade,
                   bodyVars, reqVars, sessVars, clientVars>>

\* Mutant: the connection is removed only when the Close frame was sent.
CloseDoneKeepsOnFailure(c, ok) ==
    LET id == closers[c].id IN
    /\ closers[c].pc = "close"
    /\ sockets' = [w \in DOMAIN sockets |->
          IF sockets[w].id = id /\ ok THEN [sockets[w] EXCEPT !.close_sent = TRUE]
          ELSE sockets[w]]
    /\ WS_CONNECTIONS' = IF ok THEN remove_connection(id) ELSE WS_CONNECTIONS
    /\ closers' = [closers EXCEPT ![c].pc = "done",
                                  ![c].result = IF ok THEN "ok" ELSE "close_failed"]
    /\ UNCHANGED <<NEXT_WS_ID, hostQueue, callbacks, senders, upgrade, bodyVars, reqVars, sessVars, clientVars>>

\* The closing task: connection.close().await locks the sink and sends a
\* Close frame, which succeeds or fails; then remove_connection(id), and the
\* promise is settled with the outcome of the send.
CloseDone(c, ok) ==
    LET id == closers[c].id IN
    /\ closers[c].pc = "close"
    /\ sockets' = [w \in DOMAIN sockets |->
          IF sockets[w].id = id /\ ok THEN [sockets[w] EXCEPT !.close_sent = TRUE]
          ELSE sockets[w]]
    /\ WS_CONNECTIONS' = remove_connection(id)
    /\ closers' = [closers EXCEPT ![c].pc = "done",
                                  ![c].result = IF ok THEN "ok" ELSE "close_failed"]
    /\ UNCHANGED <<NEXT_WS_ID, hostQueue, callbacks, senders, upgrade, bodyVars, reqVars, sessVars, clientVars>>

\* The promise of a websocketClose call on `id` has settled.
CloseSettled(id) ==
    \E c \in DOMAIN closers :
        closers[c].id = id /\ closers[c].result \in {"ok", "close_failed"}

\* The dispatcher task of the connection stored under `id` has exited.
Exited(id) == \E w \in DOMAIN sockets : sockets[w].id = id /\ sockets[w].dpc = "done"

\* websocketSend(conn, data): throws "WebSocket connection not found" when the
\* id is not in the registry, otherwise spawns the sending task.  `after_exit`
\* remembers whether the call came after the connection's dispatcher exited,
\* `after_close` whether it came after a websocketClose on the id settled.
WebsocketSend(id) ==
    /\ Len(senders) < MaxSenders
    /\ senders' = Append(senders,
          IF get_connection(id)
          THEN [id |-> id, pc |-> "send", result |-> "none", after_exit |-> Exited(id),
                after_close |-> CloseSettled(id)]
          ELSE [id |-> id, pc |-> "done", result |-> "not_found", after_exit |-> Exited(id),
                after_close |-> CloseSettled(id)])
    /\ UNCHANGED <<WS_CONNECTIONS, NEXT_WS_ID, sockets, hostQueue, callbacks, closers, upgrade,
                   bodyVars, reqVars, sessVars, clientVars>>

\* The sending task: connection.send_text / send_binary locks the sink and
\* sends the message, which succeeds or fails; the promise is settled with
\* the outcome.  The registry is not touched.
SendDone(s, ok) ==
    /\ senders[s].pc = "send"
    /\ senders' = [senders EXCEPT ![s].pc = "done",
                                  ![s].result = IF ok THEN "ok" ELSE "send_failed"]
    /\ UNCHANGED <<WS_CONNECTIONS, NEXT_WS_ID, sockets, hostQueue, callbacks, closers, upgrade,
                   bodyVars, reqVars, sessVars, clientVars>>

\* ------------------------------------------- session-bound WebSocket upgrade
\* Header names and values are sequences of bytes.
CookieName == <<67, 111, 111, 107, 105, 101>>
CookieNameLower == <<99, 111, 111, 107, 105, 101>>
OtherName == <<88>>
Separator == <<59, 32>>
Whitespace == {9, 10, 11, 12, 13, 32}

\* key.eq_ignore_ascii_case("cookie")
eq_ignore_ascii_case(a, b) == ToAsciiUpper(a) = ToAsciiUpper(b)

\* str::trim: leading and trailing whitespace removed.
RECURSIVE trim_start(_)
trim_start(v) ==
    IF v # <<>> /\ Head(v) \in Whitespace THEN trim_start(Tail(v)) ELSE v
RECURSIVE trim_end(_)
trim_end(v) ==
    IF v # <<>> /\ v[Len(v)] \in Whitespace THEN trim_end(SubSeq(v, 1, Len(v) - 1)) ELSE v
trim(v) == trim_end(trim_start(v))

\* HeaderValue::to_str: Ok only when every byte is visible ASCII or a tab.
to_str_ok(hv) == \A i \in DOMAIN hv : hv[i] \in (32 .. 126) \cup {9}

\* segments.join("; ")
RECURSIVE join(_)
join(segments) ==
    IF segments = <<>> THEN <<>>
    ELSE IF Len(segments) = 1 THEN segments[1]
    ELSE segments[1] \o Separator \o join(Tail(segments))

\* The loop over the user headers: the headers that are not Cookie headers,
\* as they are, in order.
RECURSIVE other_headers(_)
other_headers(headers) ==
    IF headers = <<>> THEN <<>>
    ELSE IF eq_ignore_ascii_case(Head(headers)[1], CookieNameLower)
    THEN other_headers(Tail(headers))
    ELSE <<Head(headers)>> \o other_headers(Tail(headers))

\* The loop over the user headers: the trimmed values of the Cookie headers,
\* the empty ones left out.
RECURSIVE user_segments(_)
user_segments(headers) ==
    IF headers = <<>> THEN <<>>
    ELSE IF eq_ignore_ascii_case(Head(headers)[1], CookieNameLower)
            /\ trim(Head(headers)[2]) # <<>>
    THEN <<trim(Head(headers)[2])>> \o user_segments(Tail(headers))
    ELSE user_segments(Tail(headers))

\* `if let Ok(cookie_str) = hv.to_str()`: the trimmed values the jar yields,
\* those that are not text and the empty ones left out.
RECURSIVE jar_values(_)
jar_values(values) ==
    IF values = <<>> THEN <<>>
    ELSE IF to_str_ok(Head(values)) /\ trim(Head(values)) # <<>>
    THEN <<trim(Head(values))>> \o jar_values(Tail(values))
    ELSE jar_values(Tail(values))

\* match cookies { Compressed(v), Uncompressed(vs), Empty, _ }
jar_segments(cookies) ==
    IF cookies.kind \in {"Compressed", "Uncompressed"} THEN jar_values(cookies.values)
    ELSE <<>>

\* connect_websocket_with_session: the header list handed to
\* connect_websocket_with_client.
all_headers(headers, cookies) ==
    LET cookie_segments == user_segments(headers) \o jar_segments(cookies) IN
    other_headers(headers) \o
        (IF cookie_segments # <<>> THEN <<<<CookieName, join(cookie_segments)>>>> ELSE <<>>)

NoUpgrade ==
    [called |-> FALSE, headers |-> <<>>, cookies |-> [kind |-> "Empty", values |-> <<>>],
     all_headers |-> <<>>]

\* connect_websocket_with_session(session_id, transport_id, url, headers,
\* protocols) with a transport and a session that exist, the session's jar
\* yielding `cookies` for the URL.
ConnectWebsocketWithSession(headers, cookies) ==
    /\ ~upgrade.called
    /\ upgrade' = [called |-> TRUE, headers |-> headers, cookies |-> cookies,
                   all_headers |-> all_headers(headers, cookies)]
    /\ UNCHANGED <<WS_CONNECTIONS, NEXT_WS_ID, sockets, hostQueue, callbacks, closers,
                   senders, bodyVars, reqVars, sessVars, clientVars>>

\* ------------------------------------------------------------ specifications
Init ==
    /\ BODY_STREAMS = {}
    /\ NEXT_BODY_HANDLE = FirstBodyHandle
    /\ streams = <<>>
    /\ readers = <<>>
    /\ readAllCalled = {}
    /\ dropped = {}
    /\ REQUEST_CANCELLATIONS = EmptyMap
    /\ cancelled = {}
    /\ requests = <<>>
    /\ cancelCalls = {}
    /\ lastCancelId = None
    /\ SESSION_MANAGER = EmptyMap
    /\ jars = <<>>
    /\ TRANSPORT_MANAGER = EmptyMap
    /\ transportIds = 0
    /\ EPHEMERAL_MANAGER = EmptyMap
    /\ clients = <<>>
    /\ clientForReturned = {}
    /\ dropTransportCalls = {}
    /\ sessionCall = [op |-> "none", arg |-> <<>>, result |-> "", jar |-> 0, seen |-> 0]
    /\ WS_CONNECTIONS = {}
    /\ NEXT_WS_ID = FirstWsId
    /\ sockets = <<>>
    /\ hostQueue = <<>>
    /\ callbacks = <<>>
    /\ closers = <<>>
    /\ senders = <<>>
    /\ upgrade = NoUpgrade

\* The inputs the specifications draw from.
DefaultOptions ==
    [ephemeral |-> FALSE, session_id |-> "s1", transport_id |-> None, method |-> GET,
     emulation |-> "chrome_142", emulation_os |-> "macos", proxy |-> "none",
     insecure |-> FALSE, pool_max_size |-> None]
DefaultConfig == TransportConfig(DefaultOptions)
RequestIds == {1, 2}
SessionIds == {"s1", "s2"}

\* The body stream store under read_body_chunk, read_body_all and drop.
BodyNext ==
    \/ StoreBodyStream
    \/ \E h \in Handles : ReadBodyChunkCall(h)
    \/ \E h \in Handles : ReadBodyAllCall(h)
    \/ \E t \in DOMAIN readers : ReaderLock(t)
    \/ \E t \in DOMAIN readers : ChunkNext(t)
    \/ \E t \in DOMAIN readers : ChunkMatch(t)
    \/ \E t \in DOMAIN readers : AllDrain(t)
    \/ \E h \in Handles : DropBodyStream(h)

SpecBody == Init /\ [][BodyNext]_vars

\* Requests under host-chosen request ids, cancellable or not, with
\* cancelRequest calls; transport 1 is never created.
CancelOptions ==
    {DefaultOptions, [DefaultOptions EXCEPT !.transport_id = 1],
     [DefaultOptions EXCEPT !.ephemeral = TRUE]}
CancelNext ==
    \/ \E id \in RequestIds, c \in BOOLEAN, o \in CancelOptions :
          Len(requests) < MaxRaceRequests /\ Request(id, c, o)
    \/ \E id \in RequestIds : CancelRequest(id)
    \/ \E q \in DOMAIN requests : ResolveClient(q)
    \/ \E q \in DOMAIN requests : ClientForInsert(q)
    \/ \E q \in DOMAIN requests : ResolveJar(q)
    \/ \E q \in DOMAIN requests : JarForInsert(q)
    \/ \E q \in DOMAIN requests, cl \in {None, 5} : SendComplete(q, 200, cl, FALSE)
    \/ \E q \in DOMAIN requests : SendFail(q)
    \/ \E q \in DOMAIN requests : BytesComplete(q, 5)
    \/ \E q \in DOMAIN requests : BytesFail(q)
    \/ \E q \in DOMAIN requests : Abort(q)
    \/ \E q \in DOMAIN requests : Settle(q)

SpecCancel == Init /\ [][CancelNext]_vars

\* A cancellable request whose response body is inline or streamed, with
\* cancelRequest calls and the reads and drops of the host on body handles.
CancelBodyNext ==
    \/ Len(requests) < MaxShapeRequests /\ Request(1, TRUE, DefaultOptions)
    \/ CancelRequest(1)
    \/ \E q \in DOMAIN requests : ResolveClient(q)
    \/ \E q \in DOMAIN requests : ResolveJar(q)
    \/ \E q \in DOMAIN requests : JarForInsert(q)
    \/ \E q \in DOMAIN requests, cl \in {None, 5} : SendComplete(q, 200, cl, FALSE)
    \/ \E q \in DOMAIN requests : BytesComplete(q, 5)
    \/ \E q \in DOMAIN requests : Abort(q)
    \/ \E q \in DOMAIN requests : Settle(q)
    \/ \E h \in Handles : ReadBodyChunkCall(h)
    \/ \E h \in Handles : ReadBodyAllCall(h)
    \/ \E t \in DOMAIN readers : ReaderLock(t)
    \/ \E t \in DOMAIN readers : ChunkNext(t)
    \/ \E t \in DOMAIN readers : ChunkMatch(t)
    \/ \E t \in DOMAIN readers : AllDrain(t)
    \/ \E h \in Handles : DropBodyStream(h)

SpecCancelBody == Init /\ [][CancelBodyNext]_vars

\* Responses of every status class, announced length and method.
Statuses == {101, 200, 204, 205, 304, 404}
Hints == {None, 0, INLINE_BODY_MAX, INLINE_BODY_MAX + 1}
PURGE == <<80, 85, 82, 71, 69>>
Methods == StandardMethods \cup {<<>>, PURGE, <<71, 32, 69, 84>>}
ResponseNext ==
    \/ \E m \in Methods :
          Len(requests) < MaxShapeRequests
              /\ Request(1, FALSE, [DefaultOptions EXCEPT !.method = m])
    \/ \E q \in DOMAIN requests : ResolveClient(q)
    \/ \E q \in DOMAIN requests : ResolveJar(q)
    \/ \E q \in DOMAIN requests : JarForInsert(q)
    \/ \E q \in DOMAIN requests, st \in Statuses, cl \in Hints :
          SendComplete(q, st, cl, FALSE)
    \/ \E q \in DOMAIN requests : SendFail(q)
    \/ \E q \in DOMAIN requests, len \in {0, INLINE_BODY_MAX} : BytesComplete(q, len)
    \/ \E q \in DOMAIN requests : BytesFail(q)
    \/ \E q \in DOMAIN requests : Settle(q)
    \/ \E h \in Handles : DropBodyStream(h)

SpecResponse == Init /\ [][ResponseNext]_vars

\* Session-bound and ephemeral requests, with or without a transport, among
\* the session and transport operations of the host.
SessionOptions ==
    {[DefaultOptions EXCEPT !.ephemeral = e, !.session_id = s, !.transport_id = t] :
        e \in BOOLEAN, s \in SessionIds, t \in {None, 1}}
SessionNext ==
    \/ \E o \in SessionOptions : Len(requests) < MaxRaceRequests /\ Request(1, FALSE, o)
    \/ \E s \in SessionIds : CreateSession(s)
    \/ \E s \in SessionIds : ClearSession(s)
    \/ \E s \in SessionIds : DropSession(s)
    \/ \E s \in SessionIds : ExpireSession(s)
    \/ CreateTransport(DefaultConfig)
    \/ \E t \in 1 .. MaxTransports : DropTransport(t)
    \/ \E q \in DOMAIN requests : ResolveClient(q)
    \/ \E q \in DOMAIN requests : ClientForInsert(q)
    \/ \E q \in DOMAIN requests : ResolveJar(q)
    \/ \E q \in DOMAIN requests : JarForInsert(q)
    \/ \E q \in DOMAIN requests : SendComplete(q, 204, None, TRUE)
    \/ \E q \in DOMAIN requests : Settle(q)

SpecSession == Init /\ [][SessionNext]_vars

\* Ephemeral requests whose options differ in a key field (insecure) or in a
\* pool tunable only, with idle eviction of cached clients.
EphemeralOptions ==
    {[DefaultOptions EXCEPT !.ephemeral = TRUE, !.insecure = i, !.pool_max_size = n] :
        i \in BOOLEAN, n \in {None, 8}}
EphemeralNext ==
    \/ \E o \in EphemeralOptions : Request(1, FALSE, o)
    \/ \E q \in DOMAIN requests : ResolveClient(q)
    \/ \E q \in DOMAIN requests : ClientForInsert(q)
    \/ \E o \in EphemeralOptions : ExpireClient(SessionConfig(o))
    \/ \E q \in DOMAIN requests : ResolveJar(q)
    \/ \E q \in DOMAIN requests : SendComplete(q, 204, None, FALSE)
    \/ \E q \in DOMAIN requests : Settle(q)

SpecEphemeral == Init /\ [][EphemeralNext]_vars

\* createSession and clearSession calls of the host, with a session id, an
\* empty one or none, among requests bound to session "s1".
CreateArgs == {<<>>, <<"">>, <<"s1">>}
RegistryNext ==
    \/ Request(1, FALSE, DefaultOptions)
    \/ \E a \in CreateArgs : create_session(a)
    \/ \E s \in SessionIds : clear_session(s)
    \/ \E q \in DOMAIN requests : ResolveClient(q)
    \/ \E q \in DOMAIN requests : ResolveJar(q)
    \/ \E q \in DOMAIN requests : JarForInsert(q)
    \/ \E q \in DOMAIN requests : SendComplete(q, 204, None, TRUE)
    \/ \E q \in DOMAIN requests : Settle(q)

SpecRegistry == Init /\ [][RegistryNext]_vars

\* WebSocket connections with or without onClose / onError, the frames the
\* network delivers, and websocketClose calls.
WsNext ==
    \/ \E c, e \in BOOLEAN : WebsocketConnect(c, e)
    \/ \E w \in DOMAIN sockets : ConnectFail(w)
    \/ \E w \in DOMAIN sockets : ConnectDone(w)
    \/ \E w \in DOMAIN sockets, frame \in Frames : ReaderNext(w, frame)
    \/ \E w \in DOMAIN sockets : ReaderSend(w)
    \/ \E w \in DOMAIN sockets : DispatcherRecv(w)
    \/ \E w \in DOMAIN sockets : DispatcherPermit(w)
    \/ \E w \in DOMAIN sockets : DispatcherExit(w)
    \/ HostRun
    \/ \E id \in 1 .. MaxSockets : WebsocketClose(id)
    \/ \E c \in DOMAIN closers, ok \in BOOLEAN : CloseDone(c, ok)

SpecWs == Init /\ [][WsNext]_vars

\* One connection whose peer sends Text frames faster than the host runs
\* its callbacks, until the stream ends.
PressureNext ==
    \/ WebsocketConnect(TRUE, TRUE)
    \/ \E w \in DOMAIN sockets : ConnectDone(w)
    \/ \E w \in DOMAIN sockets, frame \in {"text", "end"} :
          ReaderReads(w, frame, MaxPressureFrames)
    \/ \E w \in DOMAIN sockets : ReaderSend(w)
    \/ \E w \in DOMAIN sockets : DispatcherRecv(w)
    \/ \E w \in DOMAIN sockets : DispatcherPermit(w)
    \/ \E w \in DOMAIN sockets : DispatcherExit(w)
    \/ HostRun

SpecWsPressure == Init /\ [][PressureNext]_vars

\* Connections that receive nothing until their stream ends, under
\* websocketSend and websocketClose calls.
CallsNext ==
    \/ WebsocketConnects(TRUE, FALSE, MaxCallSockets)
    \/ \E w \in DOMAIN sockets : ConnectDone(w)
    \/ \E w \in DOMAIN sockets : ReaderNext(w, "end")
    \/ \E w \in DOMAIN sockets : ReaderSend(w)
    \/ \E w \in DOMAIN sockets : DispatcherRecv(w)
    \/ \E w \in DOMAIN sockets : DispatcherExit(w)
    \/ HostRun
    \/ \E id \in 1 .. MaxCallSockets : WebsocketClose(id)
    \/ \E c \in DOMAIN closers, ok \in BOOLEAN : CloseDone(c, ok)
    \/ \E id \in 1 .. MaxCallSockets : WebsocketSend(id)
    \/ \E s \in DOMAIN senders, ok \in BOOLEAN : SendDone(s, ok)

SpecWsCalls == Init /\ [][CallsNext]_vars

\* Session-bound WebSocket upgrades over the user headers and jar contents.
HeaderNames == {CookieName, CookieNameLower, OtherName}
HeaderValues == {<<>>, <<32>>, <<97>>, <<32, 98, 32>>}
JarValues == {<<>>, <<99>>, <<32, 100>>, <<233>>}
SeqsUpTo(S, n) == UNION {[1 .. k -> S] : k \in 0 .. n}
HeaderLists == SeqsUpTo(HeaderNames \X HeaderValues, MaxHeaders)
JarCookies ==
    {[kind |-> "Empty", values |-> <<>>]}
    \cup {[kind |-> "Compressed", values |-> <<v>>] : v \in JarValues}
    \cup {[kind |-> "Uncompressed", values |-> vs] : vs \in SeqsUpTo(JarValues, MaxJarValues)}
UpgradeNext ==
    \E headers \in HeaderLists, cookies \in JarCookies :
        ConnectWebsocketWithSession(headers, cookies)

SpecWsUpgrade == Init /\ [][UpgradeNext]_vars

\* The same, with the tokio runtime scheduling every task that can run and
\* the host running the closures queued to it.
WsFairness ==
    /\ WF_vars(HostRun)
    /\ \A w \in 1 .. MaxSockets :
          /\ WF_vars(w \in DOMAIN sockets /\ ReaderSend(w))
          /\ WF_vars(w \in DOMAIN sockets /\ DispatcherRecv(w))
          /\ WF_vars(w \in DOMAIN sockets /\ DispatcherPermit(w))
          /\ WF_vars(w \in DOMAIN sockets /\ DispatcherExit(w))

SpecWsLive == Init /\ [][WsNext]_vars /\ WsFairness

\* ------------------------------------------------------------------ claims
Allocated == FirstBodyHandle .. NEXT_BODY_HANDLE - 1
Settled(q) == requests[q].pc = "settled"
Returned(q) == requests[q].pc \in {"selected", "settled"}
HasHandle(r) == r.result.body_handle # 0
HasBytes(r) == r.result.body_bytes # None
NoBodyStatuses == {101, 204, 205, 304}

\* C1 (as claimed): once cancelRequest(r) has been called after a cancellable
\* request was submitted under id r, that request is never in flight, that
\* is, neither cancelled nor settled; and it rejects with "Request aborted"
\* only after its token was cancelled.
C1_NeverInFlightAfterCancel ==
    \A q \in cancelCalls :
        /\ q \in cancelled \/ Settled(q)
        /\ requests[q].result.kind = "request_aborted" => q \in cancelled

\* C1 (supporting): a cancellable request stays in flight after cancelRequest
\* of its id only when another cancellable request was submitted under the
\* same id.
C1_InFlightOnlyUnderSharedId ==
    \A q \in cancelCalls :
        (q \notin cancelled /\ ~Settled(q)) =>
            \E p \in DOMAIN requests \ {q} :
                requests[p].cancellable /\ requests[p].request_id = requests[q].request_id

\* C2: a cancelRequest(r) step cancels at most one token, that token was
\* registered under r, and the registry entries under every other id, with
\* their tokens, are left as they were.
C2_CancelHitsOnlyItsId ==
    [][cancelled' # cancelled =>
          \E q \in DOMAIN requests :
              /\ cancelled' = cancelled \cup {q}
              /\ requests[q].request_id = lastCancelId'
              /\ lastCancelId' \in DOMAIN REQUEST_CANCELLATIONS
              /\ REQUEST_CANCELLATIONS[lastCancelId'] = q
              /\ \A id \in DOMAIN REQUEST_CANCELLATIONS \ {lastCancelId'} :
                    /\ id \in DOMAIN REQUEST_CANCELLATIONS'
                    /\ REQUEST_CANCELLATIONS'[id] = REQUEST_CANCELLATIONS[id]
                    /\ REQUEST_CANCELLATIONS[id] \notin cancelled']_vars

\* C2 witness: one request has been cancelled while a request under another
\* id is still registered, uncancelled and sending.
C2_Witness ==
    \E q \in cancelled, p \in DOMAIN requests :
        /\ requests[p].request_id # requests[q].request_id
        /\ requests[p].request_id \in DOMAIN REQUEST_CANCELLATIONS
        /\ REQUEST_CANCELLATIONS[requests[p].request_id] = p
        /\ p \notin cancelled
        /\ requests[p].pc = "send"
        /\ requests[q].result.kind = "request_aborted"

\* C3: every read_body_chunk / read_body_all call on a body handle that
\* starts after read_body_all has begun on that handle fails with
\* "Body handle not found".
C3_ReadAfterReadAllFails ==
    \A t \in DOMAIN readers :
        readers[t].after_read_all => readers[t].result.kind = "not_found"

\* C3 witness: read_body_all has returned on a handle, with a buffer or an
\* error, and a later read_body_chunk and a later read_body_all on it failed.
C3_Witness ==
    \E a, b, c \in DOMAIN readers :
        /\ readers[a].op = "all" /\ readers[a].result.kind \in {"bytes", "stream_error"}
        /\ readers[b].op = "chunk" /\ readers[c].op = "all"
        /\ readers[b].handle = readers[a].handle /\ readers[c].handle = readers[a].handle
        /\ readers[b].after_read_all /\ readers[c].after_read_all
        /\ readers[b].result.kind = "not_found" /\ readers[c].result.kind = "not_found"

\* C4 (as claimed): a handle is in the store iff its stream has not yielded
\* a terminal result and the handle has not been dropped.
C4_PresentIffNoTerminalNoDrop ==
    \A h \in Allocated :
        h \in BODY_STREAMS <=> (~streams[h].fin /\ h \notin dropped)

\* C4 (amended): a handle is in the store iff no read_body_chunk call on it
\* has returned a terminal result (end of stream or error), no read_body_all
\* call has taken it, and it has not been dropped.
C4_PresentIffNotRemoved ==
    \A h \in Allocated :
        h \in BODY_STREAMS <=>
            /\ ~\E t \in DOMAIN readers :
                  /\ readers[t].op = "chunk" /\ readers[t].handle = h
                  /\ readers[t].result.kind \in {"eof", "stream_error"}
            /\ h \notin readAllCalled
            /\ h \notin dropped

\* C4 witness: read_body_all has taken a handle whose stream has yielded no
\* terminal result yet and which was never dropped; a second handle, read to
\* its end by read_body_chunk, is gone as well.
C4_Witness ==
    \E h, g \in Allocated :
        /\ h \notin BODY_STREAMS /\ h \in readAllCalled
        /\ ~streams[h].fin /\ h \notin dropped
        /\ g \notin BODY_STREAMS /\ g \notin readAllCalled /\ g \notin dropped
        /\ \E t \in DOMAIN readers :
              readers[t].handle = g /\ readers[t].result.kind = "eof"

\* C5: every returned Response has inline bytes without a handle, a handle
\* without inline bytes, or neither; and it has neither exactly when its
\* status is 101, 204, 205 or 304 or the request method is HEAD.
C5_ResponseShape ==
    \A q \in DOMAIN requests :
        LET r == requests[q] IN
        r.result.kind = "ok" =>
            /\ ~(HasHandle(r) /\ HasBytes(r))
            /\ (~HasHandle(r) /\ ~HasBytes(r)) <=>
                  (r.result.status \in NoBodyStatuses
                      \/ NormaliseMethod(r.options.method) = HEAD)

\* C5 witness: a settled response without any body, for a request that was
\* not a HEAD request.
C5_Witness ==
    \E q \in DOMAIN requests :
        /\ Settled(q) /\ requests[q].result.kind = "ok"
        /\ ~HasHandle(requests[q]) /\ ~HasBytes(requests[q])
        /\ requests[q].result.status = 205
        /\ NormaliseMethod(requests[q].options.method) = GET

\* C6: when a request returns a response that allows a body, an announced
\* length of at most 65536 gives inline bytes, no handle, and a content_length
\* equal to the number of inline bytes; an unknown or larger announced length
\* gives no inline bytes and a handle that is in the store at that moment.
C6_InlineOrStreamed ==
    [][\A q \in DOMAIN requests :
          LET r == requests'[q] IN
          (requests[q].pc \in {"send", "bytes"} /\ r.pc = "selected"
              /\ r.result.kind = "ok"
              /\ r.result.status \notin NoBodyStatuses
              /\ NormaliseMethod(r.options.method) # HEAD) =>
             IF r.result.hint # None /\ r.result.hint <= INLINE_BODY_MAX
             THEN /\ HasBytes(r) /\ ~HasHandle(r)
                  /\ r.result.content_length = r.result.body_bytes
             ELSE /\ ~HasBytes(r) /\ HasHandle(r)
                  /\ r.result.body_handle \in BODY_STREAMS']_vars

\* C6 witness: a response announced with exactly 65536 bytes came back
\* inline with 65536 bytes.
C6_Witness ==
    \E q \in DOMAIN requests :
        /\ Returned(q) /\ requests[q].result.kind = "ok"
        /\ requests[q].result.hint = INLINE_BODY_MAX
        /\ requests[q].result.body_bytes = INLINE_BODY_MAX
        /\ requests[q].result.content_length = INLINE_BODY_MAX
        /\ ~HasHandle(requests[q])

\* C7: when the response has status 101, 204, 205 or 304, or the request
\* method is HEAD, the step that receives it adds nothing to the body stream
\* store and the Response has neither inline bytes nor a handle, whatever
\* length was announced.
C7_NoBodyNoStore ==
    [][\A q \in DOMAIN requests :
          LET r == requests'[q] IN
          (requests[q].pc = "send" /\ r.pc # "send"
              /\ r.result.kind \in {"none", "ok"}
              /\ (r.result.status \in NoBodyStatuses
                     \/ NormaliseMethod(r.options.method) = HEAD)) =>
             /\ r.pc = "selected" /\ r.result.kind = "ok"
             /\ ~HasBytes(r) /\ ~HasHandle(r)
             /\ BODY_STREAMS' = BODY_STREAMS
             /\ NEXT_BODY_HANDLE' = NEXT_BODY_HANDLE]_vars

\* C7 witness: a 205 response that announced more than 64 KiB came back
\* without inline bytes and without handle, and nothing was ever stored.
C7_Witness ==
    \E q \in DOMAIN requests :
        /\ Returned(q) /\ requests[q].result.kind = "ok"
        /\ requests[q].result.status = 205
        /\ requests[q].result.hint = INLINE_BODY_MAX + 1
        /\ ~HasBytes(requests[q]) /\ ~HasHandle(requests[q])
        /\ NEXT_BODY_HANDLE = FirstBodyHandle

\* C8 (as claimed): any two non-ephemeral requests with the same session id
\* are bound to the same cookie jar.
C8_SameSessionSameJar ==
    \A p, q \in DOMAIN requests :
        (/\ ~requests[p].options.ephemeral /\ ~requests[q].options.ephemeral
         /\ requests[p].options.session_id = requests[q].options.session_id
         /\ requests[p].cookie_jar # 0 /\ requests[q].cookie_jar # 0) =>
            requests[p].cookie_jar = requests[q].cookie_jar

\* C9: two requests with different session ids are never bound to the same
\* jar, and the jar of an ephemeral request is the jar of no session and of
\* no other request.
C9_JarsNeverShared ==
    \A p \in DOMAIN requests :
        requests[p].cookie_jar # 0 =>
            /\ \A q \in DOMAIN requests \ {p} :
                  (requests[q].options.session_id # requests[p].options.session_id
                      \/ requests[p].options.ephemeral) =>
                     requests[q].cookie_jar # requests[p].cookie_jar
            /\ requests[p].options.ephemeral =>
                  \A s \in DOMAIN SESSION_MANAGER :
                      SESSION_MANAGER[s] # requests[p].cookie_jar

\* C9 witness: an ephemeral and a session-bound request with the same session
\* id both hold a jar, and the session is in the registry.
C9_Witness ==
    \E p, q \in DOMAIN requests :
        /\ requests[p].options.ephemeral /\ ~requests[q].options.ephemeral
        /\ requests[p].options.session_id = requests[q].options.session_id
        /\ requests[p].cookie_jar # 0 /\ requests[q].cookie_jar # 0
        /\ requests[q].options.session_id \in DOMAIN SESSION_MANAGER

\* C10: neither the submission nor any later step of an ephemeral request
\* changes the session registry, whatever its session id and transport id.
C10_EphemeralLeavesSessions ==
    [][\A q \in DOMAIN requests' :
          (/\ requests'[q].options.ephemeral
           /\ q \in DOMAIN requests => requests'[q] # requests[q]) =>
              SESSION_MANAGER' = SESSION_MANAGER]_vars

\* C10 witness: an ephemeral request through a transport has settled with a
\* response and its session id is not in the registry.
C10_Witness ==
    \E q \in DOMAIN requests :
        /\ requests[q].options.ephemeral /\ requests[q].options.transport_id # None
        /\ Settled(q) /\ requests[q].result.kind = "ok"
        /\ requests[q].options.session_id \notin DOMAIN SESSION_MANAGER

\* C11 (as claimed): when a client_for(c) call starts after another
\* client_for(c) call has returned, with no eviction of c in between, it
\* returns the same client and builds none; and two client_for calls whose
\* keys differ in one of the four key fields return different clients.
C11_SuccessiveSameClient ==
    \A q \in DOMAIN requests :
        LET r == requests[q] IN
        (r.options.ephemeral /\ r.options.transport_id = None /\ r.client # 0) =>
            /\ \A p \in r.prior : requests[p].client = r.client /\ ~r.built
            /\ \A p \in DOMAIN requests :
                  (/\ requests[p].options.ephemeral
                   /\ requests[p].options.transport_id = None
                   /\ requests[p].client # 0
                   /\ SessionConfig(requests[p].options) # SessionConfig(r.options)) =>
                      requests[p].client # r.client

\* C11 (supporting): the key is structural.  Clients returned for keys that
\* differ in a key field differ, and a call that starts after another call
\* on the same key has returned, the key not evicted since, builds nothing,
\* whatever the pool tunables of the two requests.
C11_KeyIsStructural ==
    \A q \in DOMAIN requests :
        LET r == requests[q] IN
        (r.options.ephemeral /\ r.options.transport_id = None /\ r.client # 0) =>
            /\ r.prior # {} => ~r.built
            /\ clients[r.client].config = SessionConfig(r.options)
            /\ clients[r.client].purpose = "Ephemeral"

\* The host callbacks of kind `kind` invoked for connection w, in order.
Invoked(kind, w) ==
    SelectSeq(callbacks, LAMBDA c : c.w = w /\ c.kind = kind)
Queued(kind, w) ==
    SelectSeq(hostQueue, LAMBDA c : c.w = w /\ c.kind = kind)
Payloads(closures) == [i \in DOMAIN closures |-> closures[i].val]
IsPrefix(a, b) == Len(a) <= Len(b) /\ \A i \in DOMAIN a : a[i] = b[i]
\* Position of the first callback of kind `kind` invoked for w (0: none).
FirstCall(kind, w) ==
    LET at == {i \in DOMAIN callbacks : callbacks[i].w = w /\ callbacks[i].kind = kind}
    IN IF at = {} THEN 0 ELSE CHOOSE i \in at : \A j \in at : i <= j
\* Both tasks of connection w have ended and the host has run all its closures.
Quiescent(w) ==
    /\ sockets[w].rpc = "done" /\ sockets[w].dpc = "done"
    /\ \A i \in DOMAIN hostQueue : hostQueue[i].w # w

\* C12: for each connection the payloads passed to onMessage are, in order,
\* a prefix of the Text and Binary frames the reader task received, and all
\* of them once both tasks have ended and the host has run every closure;
\* Ping and Pong frames add nothing.
C12_MessagesInOrder ==
    \A w \in DOMAIN sockets :
        /\ IsPrefix(Payloads(Invoked("message", w)), sockets[w].received)
        /\ Quiescent(w) => Payloads(Invoked("message", w)) = sockets[w].received

\* C12 witness: a connection that received a Ping or Pong, MaxFrames data
\* frames with a Text and a Binary among them, and then a Close frame, has
\* ended with every payload delivered.
C12_Witness ==
    \E w \in DOMAIN sockets :
        /\ Quiescent(w) /\ sockets[w].ended = "close" /\ sockets[w].pings > 0
        /\ Len(sockets[w].received) = MaxFrames
        /\ \E i, j \in DOMAIN sockets[w].received :
              sockets[w].received[i].kind = "text" /\ sockets[w].received[j].kind = "binary"
        /\ Payloads(Invoked("message", w)) = sockets[w].received

\* C13: for each connection at most one onClose closure is ever queued, and
\* so at most one onClose call is made.
C13_CloseAtMostOnce ==
    \A w \in DOMAIN sockets :
        Len(Invoked("close", w)) + Len(Queued("close", w)) <= 1

\* C13 witness: the peer's Close frame arrived (two Close events) on a
\* connection that websocketClose had closed locally, and when everything
\* has ended onClose has been called once.
C13_Witness ==
    \E w \in DOMAIN sockets :
        /\ Quiescent(w) /\ sockets[w].ended = "close" /\ sockets[w].close_sent
        /\ sockets[w].close_emitted
        /\ Len(Invoked("close", w)) = 1

\* C14: for a connection with an onClose callback, once the read half has
\* ended (Close frame, receive error or end of stream) onClose is eventually
\* called, and it is never called twice.
C14_CloseEventuallyOnce ==
    \A w \in 1 .. MaxSockets :
        /\ [](w \in DOMAIN sockets => Len(Invoked("close", w)) <= 1)
        /\ (w \in DOMAIN sockets /\ sockets[w].on_close /\ sockets[w].ended # "none")
               ~> (Len(Invoked("close", w)) = 1)

\* C14 witness: the read half of a connection with onClose ended with the
\* end of the stream, and onClose has been called once.
C14_Witness ==
    \E w \in DOMAIN sockets :
        /\ sockets[w].on_close /\ sockets[w].ended = "end"
        /\ Len(Invoked("close", w)) = 1

C16_RemovedOnlyAfterClosureObserved ==
    \A w \in DOMAIN sockets :
        (sockets[w].id # 0 /\ sockets[w].id \notin WS_CONNECTIONS) =>
            sockets[w].ended # "none"

\* C16 (amended): a websocketClose whose Close frame was sent has marked the
\* connection, and a stored connection id is in the registry iff no
\* websocketClose task on it has finished its send, whatever its outcome,
\* and the dispatcher task has not ended.
C16_RemovedWhenCloseSendReturns ==
    /\ \A c \in DOMAIN closers :
          closers[c].result = "ok" =>
              \E w \in DOMAIN sockets : sockets[w].id = closers[c].id /\ sockets[w].close_sent
    /\ \A w \in DOMAIN sockets :
          sockets[w].id # 0 =>
             (sockets[w].id \in WS_CONNECTIONS <=>
                 /\ sockets[w].dpc # "done"
                 /\ ~\E c \in DOMAIN closers :
                       /\ closers[c].id = sockets[w].id
                       /\ closers[c].result \in {"ok", "close_failed"})

\* C16 witness: websocketClose has sent its Close frame and returned; the id
\* is gone from the registry while the reader task is still waiting for the
\* next frame and the dispatcher task is running.
C16_Witness ==
    \E w \in DOMAIN sockets, c \in DOMAIN closers :
        /\ closers[c].id = sockets[w].id /\ closers[c].result = "ok"
        /\ sockets[w].close_sent /\ sockets[w].id \notin WS_CONNECTIONS
        /\ sockets[w].rpc = "next" /\ sockets[w].ended = "none"
        /\ sockets[w].dpc = "recv"

\* The requests that name a transport.
OnTransport(q) == requests[q].options.transport_id # None

\* C17: a transport id created by createTransport resolves to its client
\* exactly until dropTransport is called on it; a request that took the
\* client keeps that client whatever happens to the registry and never fails
\* with the not-found error; a request that resolves its client after the
\* drop fails with "Transport not found", having bound no client and no jar
\* and sent nothing.
C17_TransportUntilDrop ==
    /\ [](\A t \in 1 .. MaxTransports :
            /\ get_transport(t) # 0 <=> (t <= transportIds /\ t \notin dropTransportCalls)
            /\ get_transport(t) # 0 => clients[get_transport(t)].purpose = "Transport")
    /\ [](\A q \in DOMAIN requests :
            OnTransport(q) =>
               /\ requests[q].client # 0 =>
                     /\ requests[q].client \in DOMAIN clients
                     /\ clients[requests[q].client].purpose = "Transport"
                     /\ requests[q].result.kind # "transport_not_found"
               /\ requests[q].result.kind = "transport_not_found" =>
                     /\ requests[q].client = 0 /\ requests[q].cookie_jar = 0
                     /\ requests[q].method = NoMethod /\ requests[q].result.status = 0)
    /\ [][\A q \in DOMAIN requests :
            OnTransport(q) =>
               /\ requests[q].client # 0 => requests'[q].client = requests[q].client
               /\ (/\ requests[q].pc = "start" /\ requests'[q].pc # "start"
                   /\ requests[q].options.transport_id \in dropTransportCalls)
                     => /\ requests'[q].result.kind = "transport_not_found"
                        /\ requests'[q].pc = "selected"]_vars

\* C17 witness: transport 1 has been dropped while a request that had
\* resolved it is sending with the transport's client, and a request that
\* resolved afterwards has failed with the not-found error.
C17_Witness ==
    \E q, p \in DOMAIN requests :
        /\ OnTransport(q) /\ OnTransport(p)
        /\ requests[q].options.transport_id \in dropTransportCalls
        /\ get_transport(requests[q].options.transport_id) = 0
        /\ requests[q].pc = "send" /\ requests[q].client # 0
        /\ clients[requests[q].client].purpose = "Transport"
        /\ requests[p].options.transport_id = requests[q].options.transport_id
        /\ requests[p].result.kind = "transport_not_found"

\* A request binds its jar in this step.
BindsJar(q) == requests[q].cookie_jar = 0 /\ requests'[q].cookie_jar # 0

\* C18 (supporting): a clearSession call on an id that is not registered
\* fails with "Session not found" and changes neither the registry nor any
\* jar; on a registered id it succeeds, empties the jar of that id, leaves
\* every other jar alone and keeps the registry as it was.
C18_ClearOutcome ==
    [][\A s \in SessionIds :
         clear_session(s) =>
            /\ SESSION_MANAGER' = SESSION_MANAGER
            /\ IF s \in DOMAIN SESSION_MANAGER
               THEN /\ sessionCall'.result = "ok"
                    /\ jars'[SESSION_MANAGER[s]] = {}
                    /\ \A j \in DOMAIN jars : j # SESSION_MANAGER[s] => jars'[j] = jars[j]
                    /\ DOMAIN jars' = DOMAIN jars
               ELSE /\ sessionCall'.result = "session_not_found"
                    /\ jars' = jars]_vars

\* C18: clearSession fails on an unknown id, leaving the registry unchanged,
\* and on a known id empties the jar and keeps the entry, and a request with
\* that id submitted after a successful clearSession (no createSession or
\* clearSession since) is bound to the jar that call emptied.
C18_ClearThenSameJar ==
    [][/\ \A s \in SessionIds :
            clear_session(s) =>
               /\ SESSION_MANAGER' = SESSION_MANAGER
               /\ sessionCall'.result =
                     (IF s \in DOMAIN SESSION_MANAGER THEN "ok" ELSE "session_not_found")
               /\ s \in DOMAIN SESSION_MANAGER => jars'[SESSION_MANAGER[s]] = {}
               /\ s \notin DOMAIN SESSION_MANAGER => jars' = jars
       /\ \A q \in DOMAIN requests :
            (/\ sessionCall.op = "clear" /\ sessionCall.result = "ok"
             /\ q > sessionCall.seen
             /\ sessionCall.arg = <<requests[q].options.session_id>>
             /\ ~requests[q].options.ephemeral
             /\ BindsJar(q))
               => requests'[q].cookie_jar = sessionCall.jar]_vars

\* C19 (supporting): createSession registers a jar that did not exist
\* before, empty, under the id it returns; the id is the one supplied, or a
\* generated one, not registered before, when none is supplied.
C19_CreateRegistersFreshJar ==
    [][\A a \in CreateArgs :
         create_session(a) =>
            /\ sessionCall'.result \in DOMAIN SESSION_MANAGER'
            /\ SESSION_MANAGER'[sessionCall'.result] \notin DOMAIN jars
            /\ jars'[SESSION_MANAGER'[sessionCall'.result]] = {}
            /\ a # <<>> => sessionCall'.result = a[1]
            /\ a = <<>> => sessionCall'.result \notin DOMAIN SESSION_MANAGER \cup {""}]_vars

\* C19: no session is ever registered under the empty string, and a
\* createSession call given an empty or absent id returns a non-empty
\* generated id.
C19_NoEmptySessionId ==
    /\ "" \notin DOMAIN SESSION_MANAGER
    /\ (sessionCall.op = "create" /\ sessionCall.arg \in {<<>>, <<"">>})
          => sessionCall.result # ""

\* The method a request asked for is neither empty nor one of the nine and
\* is a valid HTTP token.
IsExtension(m) == m # <<>> /\ m \notin StandardMethods /\ ValidMethodToken(m)
InvalidMethod(m) == m # <<>> /\ m \notin StandardMethods /\ ~ValidMethodToken(m)

\* C20: once a request is past the resolution of its jar, an empty method
\* has become GET, each of the nine standard names has become that method,
\* any other valid token is an extension method with the token unchanged,
\* and a request with an invalid token has failed with the unsupported-method
\* error without a method, a send or a response; no other request fails so.
C20_MethodNormalisation ==
    \A q \in DOMAIN requests :
        LET r == requests[q]
            m == r.options.method
        IN
        /\ r.cookie_jar # 0 =>
              /\ m = <<>> => r.method = [standard |-> TRUE, name |-> GET]
              /\ m \in StandardMethods => r.method = [standard |-> TRUE, name |-> m]
              /\ IsExtension(m) => r.method = [standard |-> FALSE, name |-> m]
              /\ InvalidMethod(m) =>
                    /\ r.result.kind = "bad_method" /\ r.pc \in {"selected", "settled"}
                    /\ r.method = NoMethod /\ r.result.status = 0
        /\ r.result.kind = "bad_method" => InvalidMethod(m)
        /\ r.pc \in {"send", "bytes"} => r.method # NoMethod

\* C20 witness: a request with the extension method PURGE is being sent
\* with that method.
C20_Witness ==
    \E q \in DOMAIN requests :
        /\ requests[q].options.method = PURGE /\ requests[q].pc = "send"
        /\ requests[q].method = [standard |-> FALSE, name |-> PURGE]

\* The Text and Binary events among `events`, in order.
DataEvents(events) == SelectSeq(events, LAMBDA e : e.kind \in DataFrames)
\* The data event the dispatcher holds while it waits for a permit.
InHand(w) == IF sockets[w].dpc = "permit" THEN <<sockets[w].event>> ELSE <<>>
\* Data frames received whose onMessage callback has not run yet.
Undelivered(w) == Len(sockets[w].received) - Len(Invoked("message", w))
AtBothLimits(w) ==
    /\ Len(sockets[w].channel) = WS_EVENT_BUFFER
    /\ Len(Queued("message", w)) = WS_EVENT_BUFFER

\* C23 (as claimed): the channel holds at most WS_EVENT_BUFFER events, at
\* most WS_EVENT_BUFFER onMessage closures are queued, and while both limits
\* are reached the reader task receives no further frame.
C23_ReaderStopsAtLimits ==
    /\ [](\A w \in DOMAIN sockets :
            /\ Len(sockets[w].channel) <= WS_EVENT_BUFFER
            /\ Len(Queued("message", w)) <= WS_EVENT_BUFFER)
    /\ [][\A w \in DOMAIN sockets :
            AtBothLimits(w) => sockets'[w].received = sockets[w].received]_vars

\* C23 (amended): the channel holds at most WS_EVENT_BUFFER events and at
\* most WS_EVENT_BUFFER onMessage closures are queued; beyond them the
\* dispatcher holds at most one event, for which it awaits a permit, and the
\* reader the event of at most one frame, for which it awaits room, so at
\* most 2 * WS_EVENT_BUFFER + 2 received data frames are undelivered and the
\* reader receives a frame only with nothing in hand; every received data
\* frame is, in order, delivered, queued, in the dispatcher's hand, in the
\* channel or in the reader's hand: none is discarded.
C23_BoundedBackPressure ==
    /\ [](\A w \in DOMAIN sockets :
            /\ Len(sockets[w].channel) <= WS_EVENT_BUFFER
            /\ Len(Queued("message", w)) <= WS_EVENT_BUFFER
            /\ Len(DataEvents(sockets[w].outbox)) <= 1
            /\ Undelivered(w) <= 2 * WS_EVENT_BUFFER + 2
            /\ sockets[w].dpc # "done" =>
                  Payloads(Invoked("message", w)) \o Payloads(Queued("message", w))
                     \o InHand(w) \o DataEvents(sockets[w].channel)
                     \o DataEvents(sockets[w].outbox) = sockets[w].received
            /\ sockets[w].dpc = "done" =>
                  Payloads(Invoked("message", w)) \o Payloads(Queued("message", w))
                     = sockets[w].received)
    /\ [][\A w \in DOMAIN sockets :
            sockets'[w].received # sockets[w].received => sockets[w].outbox = <<>>]_vars

\* C23 witness: with the channel full and every permit out, the dispatcher
\* holds one more event and the reader, having received one more frame, waits
\* for room: 2 * WS_EVENT_BUFFER + 2 frames are undelivered.
C23_Witness ==
    \E w \in DOMAIN sockets :
        /\ AtBothLimits(w)
        /\ sockets[w].dpc = "permit"
        /\ sockets[w].rpc = "send" /\ DataEvents(sockets[w].outbox) # <<>>
        /\ Undelivered(w) = 2 * WS_EVENT_BUFFER + 2

\* C22: every store_body_stream call returns a handle that no earlier call
\* returned and that is greater than all of them, the first one being 1, and
\* puts exactly that handle into the store; so a handle that was removed is
\* never handed out again.
C22_HandlesFresh ==
    /\ [](DOMAIN streams = FirstBodyHandle .. NEXT_BODY_HANDLE - 1)
    /\ [][NEXT_BODY_HANDLE' # NEXT_BODY_HANDLE =>
            \E h \in DOMAIN streams' :
               /\ DOMAIN streams' = DOMAIN streams \cup {h}
               /\ BODY_STREAMS' = BODY_STREAMS \cup {h}
               /\ h \notin DOMAIN streams
               /\ h \notin dropped \cup readAllCalled
               /\ \A g \in DOMAIN streams : g < h
               /\ DOMAIN streams = {} => h = 1
               /\ streams'[h] = NewStream]_vars

\* C22 witness: handle 2 was stored after handle 1 had been handed out, and
\* handle 1, since dropped, is not in the store.
C22_Witness ==
    /\ DOMAIN streams = {1, 2}
    /\ 1 \in dropped /\ 1 \notin BODY_STREAMS
    /\ 2 \in BODY_STREAMS /\ streams[2] = NewStream

\* The token of request q is registered under the request's id.
TokenRegistered(q) ==
    /\ requests[q].request_id \in DOMAIN REQUEST_CANCELLATIONS
    /\ REQUEST_CANCELLATIONS[requests[q].request_id] = q
\* Another cancellable request was submitted under the id of q.
SharesId(q) ==
    \E p \in DOMAIN requests \ {q} :
        requests[p].cancellable /\ requests[p].request_id = requests[q].request_id

\* C24: from the moment a cancellable request is submitted until its select!
\* has resolved or its token has been cancelled, the token is in the registry
\* under the request's id, so that a cancelRequest of that id reaches it; and
\* once the request has settled its token is not in the registry.
C24_TokenRegisteredWhileInFlight ==
    \A q \in DOMAIN requests :
        requests[q].cancellable =>
            /\ (InSelect(requests[q]) /\ q \notin cancelled) => TokenRegistered(q)
            /\ Settled(q) =>
                  \A id \in DOMAIN REQUEST_CANCELLATIONS : REQUEST_CANCELLATIONS[id] # q

\* C24 (supporting): the token of a cancellable request in flight is missing
\* from the registry only when another cancellable request was submitted
\* under the same id; a settled request's token is never in the registry,
\* and a request that is not cancellable never registers one.
C24_RegisteredUnlessShared ==
    /\ \A q \in DOMAIN requests :
          requests[q].cancellable =>
             /\ (InSelect(requests[q]) /\ q \notin cancelled /\ ~SharesId(q))
                   => TokenRegistered(q)
             /\ Settled(q) =>
                   \A id \in DOMAIN REQUEST_CANCELLATIONS : REQUEST_CANCELLATIONS[id] # q
    /\ \A id \in DOMAIN REQUEST_CANCELLATIONS :
          requests[REQUEST_CANCELLATIONS[id]].cancellable

\* What a read_body_chunk call may do, `kinds` being the results it may
\* return: a call that finds no stream returns "not_found" at once and
\* changes nothing; a call returns what the stream yielded to it, leaving the
\* store as it is after a chunk and without the handle, and otherwise as it
\* is, after anything else.
ChunkResults(kinds) ==
    \A t \in DOMAIN readers :
        readers[t].op = "chunk" =>
           IF readers[t].pc = "done" THEN readers[t].result.kind \in kinds
           ELSE readers[t].result = NoResult
ChunkCallStep ==
    (Len(readers') > Len(readers) /\ readers'[Len(readers')].op = "chunk") =>
        LET r == readers'[Len(readers')] IN
        /\ BODY_STREAMS' = BODY_STREAMS /\ streams' = streams
        /\ r.handle \in BODY_STREAMS => r.pc = "lock"
        /\ r.handle \notin BODY_STREAMS => r.pc = "done" /\ r.result.kind = "not_found"
ChunkReturnStep ==
    \A t \in DOMAIN readers :
        (readers[t].op = "chunk" /\ readers[t].pc = "match" /\ readers'[t].pc = "done") =>
           /\ readers'[t].result = readers[t].next
           /\ BODY_STREAMS' =
                 IF readers[t].next.kind = "chunk" THEN BODY_STREAMS
                 ELSE BODY_STREAMS \ {readers[t].handle}

\* C25 (as claimed): read_body_chunk has exactly three outcomes: a chunk
\* with the handle left in the store, end of stream with the handle
\* removed, or "Body handle not found" with the store untouched.
C25_ThreeOutcomes ==
    /\ [](ChunkResults({"chunk", "eof", "not_found"}))
    /\ [][ChunkCallStep /\ ChunkReturnStep]_vars

\* C25 (amended): read_body_chunk has exactly four outcomes: the three
\* above, and a stream error, returned after the handle has been removed.
C25_FourOutcomes ==
    /\ [](ChunkResults({"chunk", "eof", "stream_error", "not_found"}))
    /\ [][ChunkCallStep /\ ChunkReturnStep]_vars

\* C25 witness: one handle is in the store after a read_body_chunk on it
\* returned a chunk; another is gone after a read_body_chunk on it returned
\* a stream error, and a later read_body_chunk on that one found nothing.
C25_Witness ==
    \E a, b, c \in DOMAIN readers :
        /\ readers[a].op = "chunk" /\ readers[a].result.kind = "chunk"
        /\ readers[a].handle \in BODY_STREAMS
        /\ readers[b].op = "chunk" /\ readers[b].result.kind = "stream_error"
        /\ readers[b].handle \notin BODY_STREAMS
        /\ readers[c].op = "chunk" /\ readers[c].handle = readers[b].handle
        /\ b < c /\ readers[c].result.kind = "not_found"

\* C26: whenever a read_body_chunk or read_body_all call has returned a
\* stream error, its handle is not in the store, and every read_body_chunk
\* or read_body_all call issued on that handle afterwards fails at once with
\* "Body handle not found".
C26_ErrorRemovesHandle ==
    /\ [](\A t \in DOMAIN readers :
            readers[t].result.kind = "stream_error" =>
                readers[t].handle \notin BODY_STREAMS)
    /\ [][Len(readers') > Len(readers) =>
            LET r == readers'[Len(readers')] IN
            (\E u \in DOMAIN readers :
                /\ readers[u].handle = r.handle
                /\ readers[u].result.kind = "stream_error")
              => r.pc = "done" /\ r.result.kind = "not_found"]_vars

\* C26 witness: read_body_chunk returned a stream error on one handle and
\* read_body_all on another, both handles are gone, and a later
\* read_body_chunk on the first found nothing.
C26_Witness ==
    \E a, b, c \in DOMAIN readers :
        /\ readers[a].op = "chunk" /\ readers[a].result.kind = "stream_error"
        /\ readers[b].op = "all" /\ readers[b].result.kind = "stream_error"
        /\ readers[a].handle # readers[b].handle
        /\ readers[a].handle \notin BODY_STREAMS /\ readers[b].handle \notin BODY_STREAMS
        /\ a < c /\ readers[c].op = "chunk" /\ readers[c].handle = readers[a].handle
        /\ readers[c].result.kind = "not_found"

\* Task t holds the guard of its stream's mutex (client.rs:206-219, 229-252).
HoldsGuard(t) == readers[t].pc \in {"next", "match", "drain"}

\* The chunk a read_body_chunk call has received from the stream, <<>> if none.
Received(t) ==
    IF readers[t].op # "chunk" THEN <<>>
    ELSE IF readers[t].next.kind = "chunk" THEN readers[t].next.val
    ELSE IF readers[t].result.kind = "chunk" THEN readers[t].result.val
    ELSE <<>>

\* C27: on every handle at most one call holds the stream at any moment;
\* on a handle read by read_body_chunk only, every chunk the stream has
\* yielded is with exactly one call; the chunk a call receives is later in
\* the stream than every chunk received by the calls that held the stream
\* before it; and a call waiting for a stream proceeds whenever no call on
\* that same handle holds it, whatever happens on other handles.
C27_ExclusiveInOrder ==
    /\ [](\A h \in DOMAIN streams :
            /\ Cardinality({t \in DOMAIN readers :
                    readers[t].handle = h /\ HoldsGuard(t)}) <= 1
            /\ h \notin readAllCalled =>
                  \A p \in 1 .. streams[h].pos :
                      Cardinality({t \in DOMAIN readers :
                          readers[t].handle = h /\ Received(t) = <<p>>}) = 1)
    /\ [](\A t \in DOMAIN readers :
            (/\ readers[t].pc = "lock"
             /\ \A u \in DOMAIN readers :
                    readers[u].handle = readers[t].handle => ~HoldsGuard(u))
              => ENABLED ReaderLock(t))
    /\ [][\A t \in DOMAIN readers :
            (readers[t].pc = "next" /\ readers'[t].next.kind = "chunk") =>
                \A u \in DOMAIN readers :
                    (/\ u # t /\ readers[u].handle = readers[t].handle
                     /\ Received(u) # <<>>)
                      => Received(u)[1] < readers'[t].next.val[1]]_vars

\* C27 witness: two read_body_chunk calls on one handle, the first returned
\* chunk 1 and the second received chunk 2, while a call on another handle
\* holds that handle's stream.
C27_Witness ==
    \E a, b, c \in DOMAIN readers :
        /\ readers[a].op = "chunk" /\ readers[b].op = "chunk" /\ readers[c].op = "chunk"
        /\ readers[a].handle = readers[b].handle
        /\ readers[a].pc = "done" /\ readers[a].result = Result("chunk", <<1>>)
        /\ readers[b].pc = "match" /\ readers[b].next = Result("chunk", <<2>>)
        /\ readers[c].handle # readers[a].handle /\ readers[c].pc = "next"

\* Chunks a + 1 .. b of a stream, copied into one buffer.
ChunkRun(a, b) == [i \in 1 .. (b - a) |-> a + i]

\* C28: a read_body_all call that succeeds returns, as one buffer, all the
\* chunks of the stream from the first one the stream had not yet yielded
\* when read_body_all was called up to the end of the stream (the empty
\* buffer when there is none), and the handle it found is out of the store
\* from the call on.
C28_ReadAllReturnsRemainder ==
    \A t \in DOMAIN readers :
        (readers[t].op = "all" /\ readers[t].result.kind # "not_found") =>
            /\ readers[t].handle \notin BODY_STREAMS
            /\ readers[t].result.kind = "bytes" =>
                  readers[t].result.val =
                      ChunkRun(readers[t].yielded, streams[readers[t].handle].pos)

\* C29: a handle that drop_body_stream was called on is out of the store from
\* that step on; the drop changes nothing but the store's membership of that
\* handle (nothing at all when the handle was absent, and no task in
\* progress is touched); every read_body_chunk or read_body_all call whose
\* lookup comes after the drop fails with "Body handle not found".
C29_DropRemovesAtOnce ==
    /\ [](dropped \cap BODY_STREAMS = {})
    /\ [][dropped' # dropped =>
            \E h \in Handles :
                /\ dropped' = dropped \cup {h}
                /\ BODY_STREAMS' = BODY_STREAMS \ {h}
                /\ UNCHANGED <<streams, readers, NEXT_BODY_HANDLE>>]_vars
    /\ [][Len(readers') > Len(readers) =>
            LET r == readers'[Len(readers')] IN
            r.handle \in dropped => r.pc = "done" /\ r.result.kind = "not_found"]_vars

\* C29 witness: a read_body_chunk call that found the stream before the drop
\* has a chunk in hand after it, and a later call on the dropped handle found
\* nothing.
C29_Witness ==
    \E t, u \in DOMAIN readers :
        /\ readers[t].op = "chunk" /\ readers[t].pc = "match"
        /\ readers[t].next.kind = "chunk"
        /\ readers[t].handle \in dropped /\ readers[t].handle \notin BODY_STREAMS
        /\ t < u /\ readers[u].handle = readers[t].handle
        /\ readers[u].result.kind = "not_found"

\* C31: a connection whose dispatcher task has exited is not in the
\* registry; every websocketSend and websocketClose call on its id from then
\* on throws "WebSocket connection not found"; and the id a connection is
\* stored under is the id of no other connection, exited or not.
C31_ExitedConnectionGone ==
    /\ [](\A w \in DOMAIN sockets :
            sockets[w].dpc = "done" => ~get_connection(sockets[w].id))
    /\ [][Len(closers') > Len(closers) =>
            LET c == closers'[Len(closers')] IN
            Exited(c.id) => c.pc = "done" /\ c.result = "not_found"]_vars
    /\ [][Len(senders') > Len(senders) =>
            LET c == senders'[Len(senders')] IN
            Exited(c.id) => c.pc = "done" /\ c.result = "not_found"]_vars
    /\ [][\A w \in DOMAIN sockets :
            (sockets[w].pc = "connecting" /\ sockets'[w].pc = "open") =>
                \A v \in DOMAIN sockets : v # w => sockets[v].id # sockets'[w].id]_vars

\* C31 witness: the dispatcher of one connection has exited, a websocketSend
\* issued after the exit and a websocketClose on its id were refused, and
\* another connection is open under a different id.
C31_Witness ==
    \E w, v \in DOMAIN sockets, c \in DOMAIN closers, s \in DOMAIN senders :
        /\ sockets[w].dpc = "done" /\ sockets[v].pc = "open"
        /\ sockets[v].id # sockets[w].id /\ get_connection(sockets[v].id)
        /\ senders[s].id = sockets[w].id /\ senders[s].after_exit
        /\ senders[s].result = "not_found"
        /\ closers[c].id = sockets[w].id /\ closers[c].result = "not_found"

\* A step of cancel_request: it records the call, or takes a token.
CancelStep ==
    \/ lastCancelId' # lastCancelId
    \/ cancelCalls' # cancelCalls
    \/ cancelled' # cancelled

\* read_body_chunk on h has reached the end of the stream or an error.
ReadToEnd(h) ==
    \E t \in DOMAIN readers :
        /\ readers[t].op = "chunk" /\ readers[t].handle = h
        /\ readers[t].result.kind \in {"eof", "stream_error"}

\* C32: a cancel_request call leaves the body stream store as it is, and
\* the body handle of a response that was returned leaves the store only in
\* a step in which a read_body_chunk reaches the end of its stream,
\* read_body_all takes it, or drop_body_stream drops it; in particular it
\* is in the store as long as none of the three has happened, however many
\* cancelRequest calls were made on the request's id.
C32_CancelKeepsBodyHandle ==
    /\ [][CancelStep => BODY_STREAMS' = BODY_STREAMS]_vars
    /\ [](\A q \in DOMAIN requests :
            (/\ Returned(q) /\ HasHandle(requests[q])
             /\ ~ReadToEnd(requests[q].result.body_handle)
             /\ requests[q].result.body_handle \notin readAllCalled \cup dropped)
              => requests[q].result.body_handle \in BODY_STREAMS)

\* C32 witness: cancelRequest was called on the id of a request after it had
\* settled with a body handle (its token was no longer registered), and
\* the handle is in the store.
C32_Witness ==
    \E q \in DOMAIN requests :
        /\ Settled(q) /\ HasHandle(requests[q])
        /\ q \in cancelCalls /\ q \notin cancelled
        /\ requests[q].result.body_handle \in BODY_STREAMS

\* The trimmed values among `values` that are not empty, in order.
RECURSIVE TrimmedNonEmpty(_)
TrimmedNonEmpty(values) ==
    IF values = <<>> THEN <<>>
    ELSE IF trim(Head(values)) # <<>>
    THEN <<trim(Head(values))>> \o TrimmedNonEmpty(Tail(values))
    ELSE TrimmedNonEmpty(Tail(values))

\* The entries of a header list whose name is / is not Cookie, in order.
RECURSIVE Named(_, _)
Named(headers, cookie) ==
    IF headers = <<>> THEN <<>>
    ELSE IF (ToAsciiUpper(Head(headers)[1]) = ToAsciiUpper(CookieName)) = cookie
    THEN <<Head(headers)>> \o Named(Tail(headers), cookie)
    ELSE Named(Tail(headers), cookie)

Values(headers) == [i \in DOMAIN headers |-> headers[i][2]]

\* The header list the claim describes for the user headers and the values
\* `jar` taken from the jar.
Coalesced(headers, jar) ==
    LET segments == TrimmedNonEmpty(Values(Named(headers, TRUE))) \o TrimmedNonEmpty(jar) IN
    Named(headers, FALSE) \o
        (IF segments = <<>> THEN <<>> ELSE <<<<CookieName, join(segments)>>>>)

\* The jar values that are text.
RECURSIVE TextOnly(_)
TextOnly(values) ==
    IF values = <<>> THEN <<>>
    ELSE IF to_str_ok(Head(values)) THEN <<Head(values)>> \o TextOnly(Tail(values))
    ELSE TextOnly(Tail(values))

\* C33: the header list of a session-bound upgrade is the user headers that
\* are not Cookie headers, unchanged and in order, followed by one Cookie
\* header joining with "; " the trimmed non-empty user Cookie values and then
\* the trimmed non-empty values the jar yielded, or by no Cookie header when
\* there is no such value.
C33_CookiesCoalesced ==
    upgrade.called =>
        upgrade.all_headers = Coalesced(upgrade.headers, upgrade.cookies.values)

\* The same of the jar values that are text: a value HeaderValue::to_str
\* refuses is left out.
C33_TextCookiesCoalesced ==
    upgrade.called =>
        upgrade.all_headers = Coalesced(upgrade.headers, TextOnly(upgrade.cookies.values))

\* The failures of make_request before request.send(): unknown transport,
\* client build error, unsupported method.
FailsBeforeSend(r) ==
    r.result.kind \in {"transport_not_found", "client_build", "bad_method"}

\* C34: no step of a request whose method token is invalid, and no step in
\* which a request fails before its send, changes the session registry.
C34_FailedRequestLeavesSessions ==
    [][\A q \in DOMAIN requests :
          (/\ requests'[q] # requests[q]
           /\ \/ ~MethodAccepted(requests[q].options.method)
              \/ FailsBeforeSend(requests'[q]))
            => SESSION_MANAGER' = SESSION_MANAGER]_vars

\* C35: the step in which a request settles removes from the registry of
\* cancellation tokens no token but the one that request registered.
C35_SettleRemovesOwnToken ==
    [][\A q \in DOMAIN requests :
          (requests[q].pc = "selected" /\ requests'[q].pc = "settled") =>
              \A id \in DOMAIN REQUEST_CANCELLATIONS \ DOMAIN REQUEST_CANCELLATIONS' :
                  REQUEST_CANCELLATIONS[id] = q]_vars

\* C36: the body stream store holds no handle stored by a request that was
\* aborted.
C36_AbortedLeavesNoStream ==
    \A q \in DOMAIN requests :
        requests[q].result.kind = "request_aborted" =>
            requests[q].stored \notin BODY_STREAMS

\* C36 witness: a cancellable request was cancelled while its make_request
\* was pending and has settled with "Request aborted".
C36_Witness ==
    \E q \in DOMAIN requests :
        /\ Settled(q) /\ requests[q].cancellable /\ q \in cancelled
        /\ requests[q].result.kind = "request_aborted"
        /\ requests[q].stored = 0 /\ BODY_STREAMS = {}

\* C37: a handle that has been handed out and is not in the store is not in
\* the store after any step.
C37_RemovedStaysRemoved ==
    [][\A h \in Allocated : h \notin BODY_STREAMS => h \notin BODY_STREAMS']_vars

\* C37 witness: a read_body_chunk call returned a chunk that the stream
\* yielded after read_body_all had taken the handle, and the handle is not
\* in the store.
C37_Witness ==
    \E t, u \in DOMAIN readers :
        /\ readers[t].op = "chunk" /\ readers[t].pc = "done"
        /\ readers[t].result.kind = "chunk"
        /\ readers[u].op = "all" /\ readers[u].handle = readers[t].handle
        /\ readers[u].result.kind # "not_found"
        /\ readers[t].result.val[1] > readers[u].yielded
        /\ readers[t].handle \notin BODY_STREAMS

\* C38: once a websocketClose call on a connection has settled, with the
\* Close frame sent or the send failed, the connection is not in the
\* registry, and every websocketSend and websocketClose call made on its id
\* from then on throws "WebSocket connection not found".
C38_ClosedConnectionGone ==
    /\ [](\A id \in 1 .. NEXT_WS_ID : CloseSettled(id) => ~get_connection(id))
    /\ [][Len(closers') > Len(closers) =>
            LET c == closers'[Len(closers')] IN
            CloseSettled(c.id) => c.pc = "done" /\ c.result = "not_found"]_vars
    /\ [][Len(senders') > Len(senders) =>
            LET c == senders'[Len(senders')] IN
            CloseSettled(c.id) => c.pc = "done" /\ c.result = "not_found"]_vars

\* C38 witness: a websocketClose whose send failed has settled while the
\* connection's dispatcher is still running, and a websocketClose and a
\* websocketSend made after it were refused.
C38_Witness ==
    \E w \in DOMAIN sockets, c, d \in DOMAIN closers, s \in DOMAIN senders :
        /\ sockets[w].pc = "open" /\ sockets[w].dpc # "done"
        /\ closers[c].id = sockets[w].id /\ closers[c].result = "close_failed"
        /\ c < d /\ closers[d].id = sockets[w].id /\ closers[d].result = "not_found"
        /\ senders[s].id = sockets[w].id /\ senders[s].after_close
        /\ senders[s].result = "not_found"

\* The closures dispatched to the host so far, run or still queued, in order.
Dispatched == callbacks \o hostQueue

\* C39: among the closures dispatched to the host for a connection, none
\* that follows an onClose is an onMessage or an onError.
C39_CloseIsLast ==
    \A i, j \in DOMAIN Dispatched :
        (/\ i < j /\ Dispatched[i].kind = "close"
         /\ Dispatched[j].w = Dispatched[i].w)
          => Dispatched[j].kind \notin {"message", "error"}

\* C39 witness: the host has run an onMessage, then an onError, then the
\* onClose of a connection, and nothing is queued after it.
C39_Witness ==
    /\ hostQueue = <<>>
    /\ \E i, j, k \in DOMAIN callbacks :
          /\ i < j /\ j < k /\ k = Len(callbacks)
          /\ callbacks[i].kind = "message" /\ callbacks[j].kind = "error"
          /\ callbacks[k].kind = "close"
          /\ callbacks[i].w = callbacks[k].w /\ callbacks[j].w = callbacks[k].w
          /\ sockets[callbacks[k].w].dpc = "done"

\* The clients some registry holds.
Registered ==
    {TRANSPORT_MANAGER[t] : t \in DOMAIN TRANSPORT_MANAGER}
        \cup {EPHEMERAL_MANAGER[c] : c \in DOMAIN EPHEMERAL_MANAGER}

\* C21: a request with a transport id takes the client registered under the
\* id whatever its ephemeral flag, or fails with "Transport not found" when
\* the id is unknown, and in both cases builds no client and leaves the
\* ephemeral cache alone; without a transport id an ephemeral request holds
\* a client built for the ephemeral cache under its own key, the one the
\* cache holds when the request takes it; any other request holds a client
\* built in its own resolution step, which no registry and no other request
\* holds.
C21_ResolutionPriority ==
    /\ [][\A q \in DOMAIN requests :
            (requests[q].pc = "start" /\ requests'[q].pc # "start" /\ OnTransport(q)) =>
               /\ clients' = clients /\ EPHEMERAL_MANAGER' = EPHEMERAL_MANAGER
               /\ IF requests[q].options.transport_id \in DOMAIN TRANSPORT_MANAGER
                  THEN /\ requests'[q].pc = "jar"
                       /\ requests'[q].client =
                             TRANSPORT_MANAGER[requests[q].options.transport_id]
                  ELSE /\ requests'[q].pc = "selected"
                       /\ requests'[q].result.kind = "transport_not_found"
                       /\ requests'[q].client = 0]_vars
    /\ [][\A q \in DOMAIN requests :
            (~OnTransport(q) /\ requests[q].client = 0 /\ requests'[q].client # 0) =>
               IF requests[q].options.ephemeral
               THEN /\ SessionConfig(requests[q].options) \in DOMAIN EPHEMERAL_MANAGER'
                    /\ requests'[q].client =
                          EPHEMERAL_MANAGER'[SessionConfig(requests[q].options)]
                    /\ clients'[requests'[q].client] =
                          build_ephemeral_client(SessionConfig(requests[q].options))
                    /\ TRANSPORT_MANAGER' = TRANSPORT_MANAGER
               ELSE /\ requests'[q].client \notin DOMAIN clients
                    /\ clients'[requests'[q].client] =
                          build_client(TransportConfig(requests[q].options))
                    /\ EPHEMERAL_MANAGER' = EPHEMERAL_MANAGER
                    /\ TRANSPORT_MANAGER' = TRANSPORT_MANAGER]_vars
    /\ [](\A q \in DOMAIN requests :
            (~OnTransport(q) /\ ~requests[q].options.ephemeral /\ requests[q].client # 0) =>
               /\ requests[q].client \notin Registered
               /\ \A p \in DOMAIN requests \ {q} : requests[p].client # requests[q].client)

\* C21 witness: two ephemeral requests that name transport 1, one sending
\* with the transport's client and one failed because the transport was
\* gone, beside nothing in the ephemeral cache.
C21_Witness ==
    \E q, p \in DOMAIN requests :
        /\ OnTransport(q) /\ requests[q].options.ephemeral
        /\ requests[q].pc = "send"
        /\ clients[requests[q].client].purpose = "Transport"
        /\ OnTransport(p) /\ requests[p].options.ephemeral
        /\ requests[p].result.kind = "transport_not_found"
        /\ DOMAIN EPHEMERAL_MANAGER = {}

Next == BodyNext \/ CancelNext \/ ResponseNext \/ SessionNext \/ EphemeralNext
            \/ RegistryNext \/ WsNext \/ PressureNext \/ CallsNext \/ CancelBodyNext
            \/ UpgradeNext
Spec == Init /\ [][Next]_vars
====
